---- MODULE Spec2Model ----
(***************************************************************************)
(* Model of the upgrade-analysis scripts:                                  *)
(*   categorize-changes.py      (file classifier)                          *)
(*   analyze-all-json-diffs.py  (three-way JSON comparator)                *)
(* Text is modelled as sequences of one-character strings, so that         *)
(* startswith, slicing and the regular expressions of the scripts are      *)
(* computed character by character.                                        *)
(***************************************************************************)
EXTENDS Integers, Sequences, FiniteSets, TLC

VARIABLES
    pc,                     \* position of the running script's main()
    lines,                  \* content of the --file-changes file, line by line
    full_diff,              \* the --full-diff patch: per-file sections as git wrote them
    diff_set_files,         \* the --diff-set-1/2/3 files: whether given, and their lines
    diff_sets,              \* <<diff_set_1_changes, diff_set_2_changes, diff_set_3_changes>>
    file_changes,           \* result of parse_file_changes
    categorized,            \* result of categorize_files
    inventory,              \* the result dict written by categorize-changes main
    printed,                \* warnings printed by categorize-changes main
    file_text,              \* text of the file load_json reads
    loaded,                 \* what load_json gave: a value or a raised error
    script,                 \* the script that runs
    config,                 \* the version config file: missing, present or invalid, and --config
    bad_input,              \* which JSON input of the script does not parse (0: none)
    step,                   \* the number of steps of main() taken, or of runs made
    job,                    \* the inputs of the successive runs of a script
    disk,                   \* the output directories and files that exist
    ended,                  \* how main() ended: <<>> while it runs
    exit_code,              \* the exit status of the process: <<>> while it runs
    dawn_v10,               \* old-upstream snapshot of a JSON document
    current,                \* custom snapshot
    dawn_v15,               \* new-upstream snapshot
    settings_analysis,      \* result of analyze_settings_schema (latest run)
    prev_settings_analysis, \* result of the run before it on the same inputs
    runs,                   \* number of comparator runs so far
    locale_analysis,        \* result of analyze_locale
    settings_data_analysis  \* result of analyze_settings_data

vars == <<pc, lines, full_diff, diff_set_files, diff_sets, file_changes, categorized, inventory, printed,
          dawn_v10, current, dawn_v15, settings_analysis, prev_settings_analysis,
          runs, locale_analysis, settings_data_analysis, file_text, loaded,
          script, config, bad_input, step, job, disk, ended, exit_code>>

classifierVars == <<lines, full_diff, diff_set_files, diff_sets, file_changes, categorized,
                    inventory, printed>>
comparatorVars == <<dawn_v10, current, dawn_v15, settings_analysis,
                    prev_settings_analysis, runs, locale_analysis, settings_data_analysis>>
loaderVars == <<file_text, loaded>>
scriptVars == <<script, config, bad_input, step, job, disk, ended, exit_code>>

None == "None"

\* No file is being loaded.
LoaderIdle ==
    /\ file_text = <<>>
    /\ loaded = None

\* No script of the pipeline runs.
ScriptIdle ==
    /\ script = None
    /\ config = None
    /\ bad_input = 0
    /\ step = 0
    /\ job = <<>>
    /\ disk = {}
    /\ ended = <<>>
    /\ exit_code = <<>>

(***************************************************************************)
(* Bounds                                                                  *)
(***************************************************************************)
MaxLines == 2
MaxRuns == 2
MaxParts == 4

(***************************************************************************)
(* Text constants                                                          *)
(***************************************************************************)
LocalesDir == <<"l", "o", "c", "a", "l", "e", "s", "/">>
LocalesEn == <<"l", "o", "c", "a", "l", "e", "s", "/", "e", "n", ".">>
ReadmeMd == <<"R", "E", "A", "D", "M", "E", ".", "m", "d">>
AssetsDir == <<"a", "s", "s", "e", "t", "s", "/">>
SnippetsDir == <<"s", "n", "i", "p", "p", "e", "t", "s", "/">>
TemplatesDir == <<"t", "e", "m", "p", "l", "a", "t", "e", "s", "/">>
SectionsDir == <<"s", "e", "c", "t", "i", "o", "n", "s", "/">>
LayoutDir == <<"l", "a", "y", "o", "u", "t", "/">>
GithubDir == <<".", "g", "i", "t", "h", "u", "b", "/">>
Gitignore == <<".", "g", "i", "t", "i", "g", "n", "o", "r", "e">>
PrettierRc == <<".", "p", "r", "e", "t", "t", "i", "e", "r", "r", "c", ".", "j", "s", "o", "n">>
ThemeCheck == <<".", "t", "h", "e", "m", "e", "-", "c", "h", "e", "c", "k", ".", "y", "m", "l">>
VscodeDir == <<".", "v", "s", "c", "o", "d", "e", "/">>
LicenseMd == <<"L", "I", "C", "E", "N", "S", "E", ".", "m", "d">>
ReleaseNotes == <<"r", "e", "l", "e", "a", "s", "e", "-", "n", "o", "t", "e", "s", ".", "m", "d">>
TranslationYml == <<"t", "r", "a", "n", "s", "l", "a", "t", "i", "o", "n", ".", "y", "m", "l">>

LocaleFr == <<"l", "o", "c", "a", "l", "e", "s", "/", "f", "r", ".", "j", "s", "o", "n">>
LocaleEnDefault == <<"l", "o", "c", "a", "l", "e", "s", "/", "e", "n", ".", "d", "e", "f", "a", "u", "l", "t", ".", "j", "s", "o", "n">>
LocaleNestedEn == <<"l", "o", "c", "a", "l", "e", "s", "/", "o", "l", "d", "/", "e", "n", ".", "j", "s", "o", "n">>
AssetCss == <<"a", "s", "s", "e", "t", "s", "/", "a", ".", "c", "s", "s">>
SnippetLiquid == <<"s", "n", "i", "p", "p", "e", "t", "s", "/", "c", ".", "l", "i", "q", "u", "i", "d">>
SectionLiquid == <<"s", "e", "c", "t", "i", "o", "n", "s", "/", "x", ".", "l", "i", "q", "u", "i", "d">>
CiYml == <<".", "g", "i", "t", "h", "u", "b", "/", "w", "o", "r", "k", "f", "l", "o", "w", "s", "/", "c", "i", ".", "y", "m", "l">>
LicenseOrig == <<"L", "I", "C", "E", "N", "S", "E", ".", "m", "d", ".", "o", "r", "i", "g">>
TemplateJson == <<"t", "e", "m", "p", "l", "a", "t", "e", "s", "/", "t", ".", "j", "s", "o", "n">>
LayoutLiquid == <<"l", "a", "y", "o", "u", "t", "/", "t", "h", "e", "m", "e", ".", "l", "i", "q", "u", "i", "d">>
NestedAsset == <<"c", "o", "n", "f", "i", "g", "/", "a", "s", "s", "e", "t", "s", "/", "z", ".", "c", "s", "s">>
AssetsFile == <<"a", "s", "s", "e", "t", "s">>
RenameRest == <<"0", "9", "0", "\t", "o", "l", "d", ".", "t", "x", "t", "\t", "n", "e", "w", ".", "t", "x", "t">>

DiffGit == <<"d", "i", "f", "f", " ", "-", "-", "g", "i", "t">>
DiffGitA == <<"d", "i", "f", "f", " ", "-", "-", "g", "i", "t", " ", "a", "/">>
SpaceB == <<" ", "b", "/">>
MinusA == <<"-", "-", "-", " ", "a", "/">>
PlusB == <<"+", "+", "+", " ", "b", "/">>
PlusDevNull == <<"+", "+", "+", " ", "/", "d", "e", "v", "/", "n", "u", "l", "l", "\n">>
DeletedMode == <<"d", "e", "l", "e", "t", "e", "d", " ", "f", "i", "l", "e", " ", "m", "o", "d", "e", " ", "1", "0", "0", "6", "4", "4", "\n">>
HunkHeader == <<"@", "@", " ", "-", "1", " ", "+", "1", " ", "@", "@", "\n">>
RemovedLine == <<"-", "x", "\n">>
AddedLine == <<"+", "y", "\n">>
RenderLine == <<"+", "{", "%", " ", "R", "e", "n", "d", "e", "r", " ", "'", "c", "u", "s", "t", "o", "m", "-", "a", "'", " ", "%", "}", "\n">>

(***************************************************************************)
(* String primitives (str.startswith, str.strip, slicing, re.search)       *)
(***************************************************************************)
Whitespace == {" ", "\t", "\n"}

StartsWith(s, prefix) ==
    /\ Len(prefix) <= Len(s)
    /\ SubSeq(s, 1, Len(prefix)) = prefix

MatchAt(s, sub, i) ==
    /\ i >= 1
    /\ i + Len(sub) - 1 <= Len(s)
    /\ SubSeq(s, i, i + Len(sub) - 1) = sub

Occurrences(s, sub) == {i \in 1..Len(s) : MatchAt(s, sub, i)}

Min(S) == CHOOSE x \in S : \A y \in S : x <= y
Max(S) == CHOOSE x \in S : \A y \in S : x >= y

Strip(s) ==
    LET keep == {i \in 1..Len(s) : s[i] \notin Whitespace}
    IN  IF keep = {} THEN <<>> ELSE SubSeq(s, Min(keep), Max(keep))

AtLineStart(s, i) == i = 1 \/ (i > 1 /\ s[i - 1] = "\n")

Range(s) == {s[i] : i \in 1..Len(s)}

(***************************************************************************)
(* pathlib: Path(p).name and Path(p).suffix                                *)
(***************************************************************************)
PathName(p) ==
    LET slashes == {i \in 1..Len(p) : p[i] = "/"}
    IN  IF slashes = {} THEN p ELSE SubSeq(p, Max(slashes) + 1, Len(p))

PathSuffix(p) ==
    LET name == PathName(p)
        dots == {i \in 1..Len(name) : name[i] = "."}
    IN  IF dots = {} THEN <<>>
        ELSE IF Max(dots) > 1 /\ Max(dots) < Len(name)
             THEN SubSeq(name, Max(dots), Len(name))
             ELSE <<>>

(***************************************************************************)
(* Python dicts (insertion-ordered) as sequences of [k, v] entries         *)
(***************************************************************************)
RECURSIVE Concat(_)
Concat(ss) == IF ss = <<>> THEN <<>> ELSE Head(ss) \o Concat(Tail(ss))

Keys(d) == [i \in 1..Len(d) |-> d[i].k]
KeySet(d) == {d[i].k : i \in 1..Len(d)}
Get(d, key) == d[CHOOSE i \in 1..Len(d) : d[i].k = key].v

SetItem(d, key, value) ==
    IF key \in KeySet(d)
    THEN [i \in 1..Len(d) |-> IF d[i].k = key THEN [k |-> key, v |-> value] ELSE d[i]]
    ELSE Append(d, [k |-> key, v |-> value])

RECURSIVE DictOf(_, _)
DictOf(d, entries) ==
    IF entries = <<>> THEN d
    ELSE DictOf(SetItem(d, Head(entries).k, Head(entries).v), Tail(entries))

\* Iteration over a set (the result of keys() & keys()) visits its elements in
\* an order fixed by the hash seed of the process: the elements of S in the
\* order in which `order` lists them.
IterateSet(S, order) == SelectSeq(order, LAMBDA x : x \in S)

(***************************************************************************)
(* categorize-changes.py: parse_file_changes                               *)
(***************************************************************************)
EmptyChanges == [added |-> <<>>, modified |-> <<>>, deleted |-> <<>>]

\* ParseLine with every status other than M and D counted as added, the
\* status of a rename or copy line included.
ParseLineOtherAsAdded(result, raw) ==
    LET line == Strip(raw)
    IN  IF line = <<>> THEN result
        ELSE LET status == line[1]
                 filepath_str == Strip(SubSeq(line, 3, Len(line)))
             IN  IF status = "M" THEN [result EXCEPT !.modified = Append(@, filepath_str)]
                 ELSE IF status = "D" THEN [result EXCEPT !.deleted = Append(@, filepath_str)]
                 ELSE [result EXCEPT !.added = Append(@, filepath_str)]
\* One iteration of the loop over the lines of the file.
ParseLine(result, raw) ==
    LET line == Strip(raw)
    IN  IF line = <<>> THEN result
        ELSE LET status == line[1]
                 filepath_str == Strip(SubSeq(line, 3, Len(line)))
             IN  IF status = "A" THEN [result EXCEPT !.added = Append(@, filepath_str)]
                 ELSE IF status = "M" THEN [result EXCEPT !.modified = Append(@, filepath_str)]
                 ELSE IF status = "D" THEN [result EXCEPT !.deleted = Append(@, filepath_str)]
                 ELSE result

RECURSIVE ParseLines(_, _)
ParseLines(result, ls) ==
    IF ls = <<>> THEN result
    ELSE ParseLines(ParseLine(result, Head(ls)), Tail(ls))

parse_file_changes(ls) == ParseLines(EmptyChanges, ls)

(***************************************************************************)
(* categorize-changes.py: parse_diff_patch                                 *)
(***************************************************************************)
ContentLimit == 200

Digits == <<"0", "1", "2", "3", "4", "5", "6", "7", "8", "9">>
DevNull == <<"/", "d", "e", "v", "/", "n", "u", "l", "l">>
HunkOpen == <<"@", "@", " ", "-">>
HunkPlus == <<" ", "+">>
HunkClose == <<" ", "@", "@">>

\* str.rstrip()
RStrip(s) ==
    LET keep == {i \in 1..Len(s) : s[i] \notin Whitespace}
    IN  IF keep = {} THEN <<>> ELSE SubSeq(s, 1, Max(keep))

\* The line without its newline: what '.' can match and where '$' stands.
LineBody(line) ==
    IF line # <<>> /\ line[Len(line)] = "\n" THEN SubSeq(line, 1, Len(line) - 1) ELSE line

\* group(2) of r'^diff --git a/(.+?) b/(.+?)$': the text after the first " b/"
\* that leaves both groups at least one character; <<>> when there is no match.
HeaderFile(line) ==
    LET body == LineBody(line)
        cuts == {j \in Occurrences(body, SpaceB) :
                    j >= Len(DiffGitA) + 2 /\ j + Len(SpaceB) <= Len(body)}
    IN  IF StartsWith(body, DiffGitA) /\ "\n" \notin Range(body) /\ cuts # {}
        THEN SubSeq(body, Min(cuts) + Len(SpaceB), Len(body))
        ELSE <<>>

\* The end of the run of digits (\d+) that starts at i; i - 1 when there is none.
DigitsEnd(s, i) ==
    LET stops == {j \in i..Len(s) : s[j] \notin Range(Digits)}
    IN  IF stops = {} THEN Len(s) ELSE Min(stops) - 1

\* (?:,(\d+))? after position i: the position after the optional count.
AfterCount(s, i) ==
    IF i + 1 <= Len(s) /\ s[i] = "," /\ DigitsEnd(s, i + 1) >= i + 1
    THEN DigitsEnd(s, i + 1) + 1
    ELSE i

DigitValue(c) == (CHOOSE i \in 1..Len(Digits) : Digits[i] = c) - 1

\* int(text) for a text of digits
RECURSIVE ToInt(_)
ToInt(ds) ==
    IF ds = <<>> THEN 0
    ELSE 10 * ToInt(SubSeq(ds, 1, Len(ds) - 1)) + DigitValue(ds[Len(ds)])

\* r'@@ -(\d+)(?:,(\d+))? \+(\d+)(?:,(\d+))? @@' matched at position i:
\* <<int(group(3))>>, or <<>> when it does not match there.
HunkAt(s, i) ==
    LET oldStart == i + Len(HunkOpen)
        oldEnd == DigitsEnd(s, oldStart)
        plus == AfterCount(s, oldEnd + 1)
        newStart == plus + Len(HunkPlus)
        newEnd == DigitsEnd(s, newStart)
        close == AfterCount(s, newEnd + 1)
    IN  IF /\ MatchAt(s, HunkOpen, i)
           /\ oldEnd >= oldStart
           /\ MatchAt(s, HunkPlus, plus)
           /\ newEnd >= newStart
           /\ MatchAt(s, HunkClose, close)
        THEN <<ToInt(SubSeq(s, newStart, newEnd))>>
        ELSE <<>>

\* re.search: the leftmost match; <<>> when there is none.
HunkNewStart(line) ==
    LET hits == {i \in 1..Len(line) : HunkAt(line, i) # <<>>}
    IN  IF hits = {} THEN <<>> ELSE HunkAt(line, Min(hits))

\* current_file is a path, or <<>> for None and for '' (both falsy, and the
\* parser only ever tests `if current_file`); line_num is <<n>>, or <<>> for None.
ParserStart ==
    [result |-> <<>>, current_file |-> <<>>, current_changes |-> <<>>, line_num |-> <<>>]

SaveCurrent(st) ==
    IF st.current_file # <<>>
    THEN SetItem(st.result, st.current_file, st.current_changes)
    ELSE st.result

\* One iteration of the loop over the lines of the patch.
PatchLine(st, line) ==
    IF StartsWith(line, DiffGit)
    THEN IF HeaderFile(line) # <<>>
         THEN [st EXCEPT !.result = SaveCurrent(st),
                         !.current_file = HeaderFile(line),
                         !.current_changes = <<>>]
         ELSE [st EXCEPT !.result = SaveCurrent(st)]
    ELSE IF StartsWith(line, PlusB)
    THEN [st EXCEPT !.current_file =
                        IF Strip(SubSeq(line, 7, Len(line))) = DevNull THEN <<>>
                        ELSE Strip(SubSeq(line, 7, Len(line))),
                    !.current_changes = <<>>]
    ELSE IF StartsWith(line, <<"@", "@">>)
    THEN IF HunkNewStart(line) # <<>>
         THEN [st EXCEPT !.line_num = HunkNewStart(line)]
         ELSE st
    ELSE IF st.current_file # <<>> /\ st.line_num # <<>>
    THEN IF StartsWith(line, <<"+">>) /\ ~StartsWith(line, <<"+", "+", "+">>)
         THEN LET content == RStrip(SubSeq(line, 2, Len(line)))
              IN  IF content # <<>> /\ ~StartsWith(content, <<"-", "-", "-">>)
                  THEN [st EXCEPT !.current_changes =
                                      Append(@, [line |-> st.line_num[1],
                                                 type |-> "addition",
                                                 content |-> SubSeq(content, 1,
                                                     Min({ContentLimit, Len(content)}))]),
                                  !.line_num = <<@[1] + 1>>]
                  ELSE st
         ELSE IF StartsWith(line, <<"-">>) /\ ~StartsWith(line, <<"-", "-", "-">>)
         THEN st
         ELSE IF StartsWith(line, <<" ">>)
         THEN [st EXCEPT !.line_num = <<@[1] + 1>>]
         ELSE st
    ELSE st

RECURSIVE PatchLines(_, _)
PatchLines(st, ls) ==
    IF ls = <<>> THEN st ELSE PatchLines(PatchLine(st, Head(ls)), Tail(ls))

\* `ls` are the lines of the patch file as `for line in f` gives them.
parse_diff_patch(ls) == SaveCurrent(PatchLines(ParserStart, ls))

(***************************************************************************)
(* categorize-changes.py: categorize_files                                 *)
(***************************************************************************)
\* A diff set that was not supplied is the empty dict {} (falsy).
NotGiven == [given |-> FALSE, added |-> <<>>, modified |-> <<>>, deleted |-> <<>>]

\* The labels of the diff sets that list the path under any change type.
ComparisonLabelsAnyType(filepath, kind, ds1, ds2, ds3) ==
    LET Lists(ds) ==
            ds.given /\ filepath \in Range(ds.added) \cup Range(ds.modified) \cup Range(ds.deleted)
        comparisons ==
            (IF Lists(ds1) THEN <<"v10_upstream_vs_v10_custom">> ELSE <<>>)
            \o (IF Lists(ds2) THEN <<"v10_custom_vs_v15_upstream">> ELSE <<>>)
            \o (IF Lists(ds3) THEN <<"v10_upstream_vs_v15_upstream">> ELSE <<>>)
    IN  IF comparisons # <<>> THEN comparisons ELSE <<"v10_upstream_vs_v10_custom">>
ComparisonLabels(filepath, kind, ds1, ds2, ds3) ==
    LET comparisons ==
            (IF ds1.given /\ filepath \in Range(ds1[kind])
             THEN <<"v10_upstream_vs_v10_custom">> ELSE <<>>)
            \o (IF ds2.given /\ filepath \in Range(ds2[kind])
                THEN <<"v10_custom_vs_v15_upstream">> ELSE <<>>)
            \o (IF ds3.given /\ filepath \in Range(ds3[kind])
                THEN <<"v10_upstream_vs_v15_upstream">> ELSE <<>>)
    IN  IF comparisons # <<>> THEN comparisons ELSE <<"v10_upstream_vs_v10_custom">>

\* The bucket of the first directory named anywhere in the path.
CustomBucketAnywhere(filepath) ==
    IF Occurrences(filepath, AssetsDir) # {} THEN "assets"
    ELSE IF Occurrences(filepath, SnippetsDir) # {} THEN "snippets"
    ELSE IF Occurrences(filepath, TemplatesDir) # {} THEN "templates"
    ELSE IF Occurrences(filepath, SectionsDir) # {} THEN "sections"
    ELSE IF Occurrences(filepath, LayoutDir) # {} THEN "layout"
    ELSE "other"

CustomBucket(filepath) ==
    IF StartsWith(filepath, AssetsDir) THEN "assets"
    ELSE IF StartsWith(filepath, SnippetsDir) THEN "snippets"
    ELSE IF StartsWith(filepath, TemplatesDir) THEN "templates"
    ELSE IF StartsWith(filepath, SectionsDir) THEN "sections"
    ELSE IF StartsWith(filepath, LayoutDir) THEN "layout"
    ELSE "other"

CustomFileInfo(filepath, ds1, ds2, ds3) ==
    [path |-> filepath,
     type |-> IF PathSuffix(filepath) # <<>> THEN Tail(PathSuffix(filepath)) ELSE <<"unknown">>,
     description |-> <<"Custom ", PathName(filepath)>>,
     comparisons |-> ComparisonLabels(filepath, "added", ds1, ds2, ds3)]

RECURSIVE MapAdded(_, _, _, _)
MapAdded(added, ds1, ds2, ds3) ==
    IF added = <<>> THEN <<>>
    ELSE <<CustomFileInfo(Head(added), ds1, ds2, ds3)>> \o MapAdded(Tail(added), ds1, ds2, ds3)

InBucket(infos, b) == SelectSeq(infos, LAMBDA f : CustomBucket(f.path) = b)

CustomFiles(added, ds1, ds2, ds3) ==
    LET infos == MapAdded(added, ds1, ds2, ds3)
    IN  [assets |-> InBucket(infos, "assets"),
         snippets |-> InBucket(infos, "snippets"),
         templates |-> InBucket(infos, "templates"),
         sections |-> InBucket(infos, "sections"),
         layout |-> InBucket(infos, "layout"),
         other |-> InBucket(infos, "other")]

\* True for the modified paths whose customizations are discarded.
RevertToClean(filepath) ==
    IF StartsWith(filepath, LocalesDir) /\ ~StartsWith(filepath, LocalesEn) THEN TRUE
    ELSE IF filepath = ReadmeMd THEN TRUE
    ELSE FALSE

RevertReason(filepath) ==
    IF RevertToClean(filepath)
    THEN IF filepath = ReadmeMd
         THEN "Accept Dawn 15.4.0 version (revert our customizations)"
         ELSE "Non-English locale - custom features only support English"
    ELSE None

ModifiedInfo(filepath, ds1, ds2, ds3) ==
    [path |-> filepath,
     changes |-> <<>>,
     integration_points |-> <<>>,
     revert_to_clean |-> RevertToClean(filepath),
     reason |-> RevertReason(filepath),
     comparisons |-> ComparisonLabels(filepath, "modified", ds1, ds2, ds3)]

\* d[k] = v on an insertion-ordered dict kept as a sequence of entries keyed by path.
DictPut(d, v) ==
    IF \E i \in 1..Len(d) : d[i].path = v.path
    THEN [i \in 1..Len(d) |-> IF d[i].path = v.path THEN v ELSE d[i]]
    ELSE Append(d, v)

RECURSIVE ModifiedDawnFiles(_, _, _, _, _)
ModifiedDawnFiles(d, modified, ds1, ds2, ds3) ==
    IF modified = <<>> THEN d
    ELSE ModifiedDawnFiles(DictPut(d, ModifiedInfo(Head(modified), ds1, ds2, ds3)),
                           Tail(modified), ds1, ds2, ds3)

dev_config_files ==
    <<GithubDir, Gitignore, PrettierRc, ThemeCheck, VscodeDir, LicenseMd,
      ReleaseNotes, TranslationYml>>

IsDevConfig(filepath) ==
    \E k \in 1..Len(dev_config_files) :
        StartsWith(filepath, dev_config_files[k]) \/ filepath = dev_config_files[k]

\* re.search(rf'diff --git.*{path}|^--- a/{path}|^\+\+\+ b/{path}', content, re.MULTILINE)
MentionsFile(content, filepath) ==
    \/ \E i \in Occurrences(content, DiffGit) :
         \E j \in Occurrences(content, filepath) :
            /\ j >= i + Len(DiffGit)
            /\ \A k \in (i + Len(DiffGit))..(j - 1) : content[k] # "\n"
    \/ \E i \in Occurrences(content, MinusA \o filepath) : AtLineStart(content, i)
    \/ \E i \in Occurrences(content, PlusB \o filepath) : AtLineStart(content, i)

\* re.search(rf'(diff --git.*?{path}.*?)(?=diff --git|\Z)', content, re.DOTALL):
\* the leftmost "diff --git" that is followed anywhere by the path, up to the
\* first "diff --git" after that occurrence of the path (or the end of the text).
\* <<>> stands for no match.
DiffSection(content, filepath) ==
    LET paths == Occurrences(content, filepath)
        starts == {i \in Occurrences(content, DiffGit) :
                     \E j \in paths : j >= i + Len(DiffGit)}
    IN  IF starts = {} THEN <<>>
        ELSE LET i == Min(starts)
                 j == Min({n \in paths : n >= i + Len(DiffGit)})
                 ends == {k \in Occurrences(content, DiffGit) : k >= j + Len(filepath)}
                 e == IF ends = {} THEN Len(content) + 1 ELSE Min(ends)
             IN  SubSeq(content, i, e - 1)

\* re.search(r'^\+[^+]', section, re.MULTILINE)
HasAddedLine(section) ==
    \E k \in 1..(Len(section) - 1) :
        /\ AtLineStart(section, k)
        /\ section[k] = "+"
        /\ section[k + 1] # "+"

HasCustomizations(filepath, full_diff_content) ==
    IF IsDevConfig(filepath) /\ full_diff_content # <<>>
    THEN IF MentionsFile(full_diff_content, filepath)
         THEN LET section == DiffSection(full_diff_content, filepath)
              IN  section # <<>> /\ HasAddedLine(section)
         ELSE FALSE
    ELSE FALSE

\* RemovedInfo with should_restore set for every deleted file.
RemovedInfoAlwaysRestore(filepath, full_diff_content, ds1, ds2, ds3) ==
    [path |-> filepath,
     should_restore |-> TRUE,
     accept_dawn_15_4 |-> IsDevConfig(filepath),
     has_customizations |-> HasCustomizations(filepath, full_diff_content),
     description |-> <<"Should restore", " Dawn file: ", filepath>>,
     comparisons |-> ComparisonLabels(filepath, "deleted", ds1, ds2, ds3)]

RemovedInfo(filepath, full_diff_content, ds1, ds2, ds3) ==
    LET is_dev_config == IsDevConfig(filepath)
        has_customizations == HasCustomizations(filepath, full_diff_content)
    IN  [path |-> filepath,
         should_restore |-> ~is_dev_config,
         accept_dawn_15_4 |-> is_dev_config,
         has_customizations |-> IF is_dev_config THEN has_customizations ELSE FALSE,
         description |->
            <<IF is_dev_config
              THEN IF has_customizations
                   THEN "Accept Dawn 15.4.0 version (patch with customizations)"
                   ELSE "Accept Dawn 15.4.0 version"
              ELSE "Should restore",
              " Dawn file: ", filepath>>,
         comparisons |-> ComparisonLabels(filepath, "deleted", ds1, ds2, ds3)]

RECURSIVE RemovedDawnFiles(_, _, _, _, _)
RemovedDawnFiles(deleted, full_diff_content, ds1, ds2, ds3) ==
    IF deleted = <<>> THEN <<>>
    ELSE <<RemovedInfo(Head(deleted), full_diff_content, ds1, ds2, ds3)>>
         \o RemovedDawnFiles(Tail(deleted), full_diff_content, ds1, ds2, ds3)

categorize_files(fc, full_diff_content, ds1, ds2, ds3) ==
    [custom_files |-> CustomFiles(fc.added, ds1, ds2, ds3),
     modified_dawn_files |-> ModifiedDawnFiles(<<>>, fc.modified, ds1, ds2, ds3),
     removed_dawn_files |-> RemovedDawnFiles(fc.deleted, full_diff_content, ds1, ds2, ds3)]

(***************************************************************************)
(* categorize-changes.py: extract_integration_points                       *)
(***************************************************************************)
UpperCase == <<"A", "B", "C", "D", "E", "F", "G", "H", "I", "J", "K", "L", "M", "N", "O", "P", "Q", "R", "S", "T", "U", "V", "W", "X", "Y", "Z">>
LowerCase == <<"a", "b", "c", "d", "e", "f", "g", "h", "i", "j", "k", "l", "m", "n", "o", "p", "q", "r", "s", "t", "u", "v", "w", "x", "y", "z">>
Render == <<"r", "e", "n", "d", "e", "r">>
CustomDash == <<"c", "u", "s", "t", "o", "m", "-">>
DotJs == <<".", "j", "s">>
ComponentCustomDash == <<"c", "o", "m", "p", "o", "n", "e", "n", "t", "-", "c", "u", "s", "t", "o", "m", "-">>
DotCss == <<".", "c", "s", "s">>
Quotes == {"'", "\""}

\* re.IGNORECASE: the patterns are lower case, so match the lowered content.
Lower(c) ==
    IF c \in Range(UpperCase) THEN LowerCase[CHOOSE i \in 1..Len(UpperCase) : UpperCase[i] = c]
    ELSE c

LowerText(s) == [i \in 1..Len(s) |-> Lower(s[i])]

\* r"render\s+['\"]custom-"
RendersCustomSnippet(content) ==
    \E i \in Occurrences(content, Render) : \E q \in (i + Len(Render) + 1)..Len(content) :
        /\ \A k \in (i + Len(Render))..(q - 1) : content[k] \in Whitespace
        /\ content[q] \in Quotes
        /\ MatchAt(content, CustomDash, q + 1)

\* first, then '.*', then last
Follows(content, first, last) ==
    \E i \in Occurrences(content, first) : \E j \in Occurrences(content, last) :
        j >= i + Len(first)

\* The description of the first pattern that matches, or None.
IntegrationPoint(content) ==
    IF RendersCustomSnippet(LowerText(content)) THEN "Custom snippet render"
    ELSE IF Follows(LowerText(content), CustomDash, DotJs) THEN "Custom JavaScript reference"
    ELSE IF Follows(LowerText(content), ComponentCustomDash, DotCss) THEN "Custom CSS reference"
    ELSE None

\* f"Line {change['line']}: {description}"
IntegrationNote(change) ==
    IF IntegrationPoint(change.content) # None
    THEN << <<"Line ", change.line, ": ", IntegrationPoint(change.content)>> >>
    ELSE <<>>

extract_integration_points(filepath, changes) ==
    Concat([i \in 1..Len(changes) |-> IntegrationNote(changes[i])])

(***************************************************************************)
(* categorize-changes.py: main, "Enhance modified files with change        *)
(* details"                                                                *)
(***************************************************************************)
EnhancedInfo(file_info, parsed) ==
    IF file_info.path \in KeySet(parsed)
    THEN [file_info EXCEPT
            !.changes = Get(parsed, file_info.path),
            !.integration_points =
                extract_integration_points(file_info.path, Get(parsed, file_info.path))]
    ELSE file_info

EnhanceModified(cat, parsed) ==
    [cat EXCEPT !.modified_dawn_files = [i \in 1..Len(@) |-> EnhancedInfo(@[i], parsed)]]

(***************************************************************************)
(* categorize-changes.py: main, "Combine results"                          *)
(***************************************************************************)
PathsOf(infos) == [i \in 1..Len(infos) |-> infos[i].path]

\* Every classified path, whatever its change type, that the path rule reverts.
FilesToRevertByPath(cat) ==
    SelectSeq(PathsOf(cat.custom_files.assets \o cat.custom_files.snippets
                      \o cat.custom_files.templates \o cat.custom_files.sections
                      \o cat.custom_files.layout \o cat.custom_files.other
                      \o cat.modified_dawn_files \o cat.removed_dawn_files),
              LAMBDA path : RevertToClean(path))

FilesToRevert(cat) == PathsOf(SelectSeq(cat.modified_dawn_files, LAMBDA info : info.revert_to_clean))
FilesToPatchModified(cat) ==
    PathsOf(SelectSeq(cat.modified_dawn_files, LAMBDA info : ~info.revert_to_clean))
FilesToRestore(cat) == PathsOf(SelectSeq(cat.removed_dawn_files, LAMBDA f : f.should_restore))
FilesToAcceptDawn(cat) == PathsOf(SelectSeq(cat.removed_dawn_files, LAMBDA f : f.accept_dawn_15_4))
FilesToPatchDeleted(cat) ==
    PathsOf(SelectSeq(cat.removed_dawn_files, LAMBDA f : f.accept_dawn_15_4 /\ f.has_customizations))

ModifiedAddUp(cat) ==
    Len(cat.modified_dawn_files) = Len(FilesToRevert(cat)) + Len(FilesToPatchModified(cat))

CombineResults(cat) ==
    [custom_files |-> cat.custom_files,
     modified_dawn_files |-> cat.modified_dawn_files,
     removed_dawn_files |-> cat.removed_dawn_files,
     files_to_revert_to_clean |-> FilesToRevert(cat),
     files_to_patch_modified |-> FilesToPatchModified(cat),
     files_to_restore_from_dawn |-> FilesToRestore(cat),
     files_to_accept_dawn_15_4 |-> FilesToAcceptDawn(cat),
     files_to_patch_with_customizations |-> FilesToPatchDeleted(cat),
     summary |->
        [custom_files_count |->
            Len(cat.custom_files.assets) + Len(cat.custom_files.snippets)
            + Len(cat.custom_files.templates) + Len(cat.custom_files.sections)
            + Len(cat.custom_files.layout) + Len(cat.custom_files.other),
         modified_dawn_files_count |-> Len(cat.modified_dawn_files),
         removed_dawn_files_count |-> Len(cat.removed_dawn_files),
         files_to_revert_count |-> Len(FilesToRevert(cat)),
         files_to_patch_modified_count |-> Len(FilesToPatchModified(cat)),
         files_to_restore_count |-> Len(FilesToRestore(cat)),
         files_to_accept_dawn_15_4_count |-> Len(FilesToAcceptDawn(cat)),
         files_to_patch_deleted_count |-> Len(FilesToPatchDeleted(cat)),
         validation |->
            [modified_equals_revert_plus_patch |-> ModifiedAddUp(cat),
             removed_equals_restore_plus_accept |->
                Len(cat.removed_dawn_files)
                    = Len(FilesToRestore(cat)) + Len(FilesToAcceptDawn(cat))]]]

(***************************************************************************)
(* Inputs of the classifier                                                *)
(***************************************************************************)
RawLine(status, path) == <<status, "\t">> \o path \o <<"\n">>

\* Lines as `git diff --name-status` writes them, one blank line, one rename line.
FileChangeLines ==
    {RawLine("M", LocaleFr), RawLine("M", LocaleEnDefault), RawLine("M", LocaleNestedEn),
     RawLine("M", ReadmeMd), RawLine("M", AssetCss),
     RawLine("D", CiYml), RawLine("D", LicenseMd), RawLine("D", LicenseOrig),
     RawLine("D", SectionLiquid),
     RawLine("A", AssetCss), RawLine("A", SnippetLiquid),
     <<"R">> \o RenameRest \o <<"\n">>, <<"\n">>}

LinePath(raw) == Strip(SubSeq(Strip(raw), 3, Len(Strip(raw))))

\* git lists each path once.
FileChangeFiles ==
    {ls \in UNION {[1..n -> FileChangeLines] : n \in 0..MaxLines} :
        \A i, j \in 1..Len(ls) : i # j => LinePath(ls[i]) # LinePath(ls[j])}

\* The files of the patch in the order git writes them (by path).
DiffPathOrder == <<CiYml, LicenseMd, AssetCss>>
DiffKinds == {"absent", "modified", "deleted"}

RECURSIVE SectionsFrom(_, _)
SectionsFrom(kinds, i) ==
    IF i > Len(DiffPathOrder) THEN <<>>
    ELSE (IF kinds[i] = "absent" THEN <<>>
          ELSE <<[path |-> DiffPathOrder[i], kind |-> kinds[i]]>>)
         \o SectionsFrom(kinds, i + 1)

\* The asset, a file of the theme in every tree, is never a deleted file.
DiffFiles ==
    {SectionsFrom(kinds, 1) :
        kinds \in {k \in [1..Len(DiffPathOrder) -> DiffKinds] : k[3] # "deleted"}}

\* The lines of one file's section, each with its newline.
SectionLines(sec) ==
    <<DiffGitA \o sec.path \o SpaceB \o sec.path \o <<"\n">> >>
    \o (IF sec.kind = "deleted" THEN <<DeletedMode>> ELSE <<>>)
    \o <<MinusA \o sec.path \o <<"\n">> >>
    \o (IF sec.kind = "deleted" THEN <<PlusDevNull>> ELSE <<PlusB \o sec.path \o <<"\n">> >>)
    \o <<HunkHeader, RemovedLine>>
    \o (IF sec.kind = "deleted" THEN <<>> ELSE <<AddedLine>>)
    \o (IF sec.kind = "modified" /\ sec.path = AssetCss THEN <<RenderLine>> ELSE <<>>)

\* `for line in f`: the lines of the patch.
DiffLines(sections) == Concat([i \in 1..Len(sections) |-> SectionLines(sections[i])])

\* f.read(): the patch as one text.
DiffText(sections) == Concat(DiffLines(sections))

\* A --diff-set-N argument: not given, or a file of name-status lines.
Missing == [given |-> FALSE, lines |-> <<>>]
EmptyFile == [given |-> TRUE, lines |-> <<>>]
\* A diff set that lists the paths under the change types of FileChangeLines.
SameTypes ==
    [given |-> TRUE,
     lines |-> <<RawLine("M", AssetCss), RawLine("M", LocaleFr), RawLine("D", LicenseMd),
                 RawLine("D", SectionLiquid), RawLine("A", SnippetLiquid)>>]
\* A diff set that lists the same paths under other change types.
OtherTypes ==
    [given |-> TRUE,
     lines |-> <<RawLine("D", AssetCss), RawLine("A", LocaleFr), RawLine("M", LicenseMd),
                 RawLine("M", SectionLiquid), RawLine("D", SnippetLiquid)>>]

DiffSetTriples ==
    {<<SameTypes, Missing, Missing>>, <<Missing, SameTypes, Missing>>,
     <<Missing, Missing, SameTypes>>, <<SameTypes, SameTypes, SameTypes>>,
     <<OtherTypes, SameTypes, OtherTypes>>, <<SameTypes, OtherTypes, SameTypes>>,
     <<OtherTypes, OtherTypes, OtherTypes>>, <<EmptyFile, EmptyFile, EmptyFile>>}

\* The patch with a section for each file of DiffPathOrder.
FullPatch ==
    <<[path |-> CiYml, kind |-> "modified"], [path |-> LicenseMd, kind |-> "deleted"],
      [path |-> AssetCss, kind |-> "modified"]>>

\* diff_set_N_changes: {} when the argument is not given, else the parsed file.
LoadDiffSet(file) ==
    IF file.given
    THEN [given |-> TRUE,
          added |-> parse_file_changes(file.lines).added,
          modified |-> parse_file_changes(file.lines).modified,
          deleted |-> parse_file_changes(file.lines).deleted]
    ELSE NotGiven

(***************************************************************************)
(* categorize-changes.py main as a process                                 *)
(***************************************************************************)
ComparatorIdle ==
    /\ dawn_v10 = <<>>
    /\ current = <<>>
    /\ dawn_v15 = <<>>
    /\ settings_analysis = None
    /\ prev_settings_analysis = None
    /\ runs = 0
    /\ locale_analysis = None
    /\ settings_data_analysis = None

\* The runs without --diff-set arguments.
InitClassify ==
    /\ pc = "start"
    /\ lines \in FileChangeFiles
    /\ full_diff \in DiffFiles
    /\ diff_set_files = <<Missing, Missing, Missing>>
    /\ diff_sets = <<NotGiven, NotGiven, NotGiven>>
    /\ file_changes = None
    /\ categorized = None
    /\ inventory = None
    /\ printed = <<>>
    /\ ComparatorIdle
    /\ LoaderIdle
    /\ ScriptIdle

ParseFileChanges ==
    /\ pc = "start"
    /\ file_changes' = parse_file_changes(lines)
    /\ pc' = "parsed"
    /\ diff_sets' = [k \in 1..3 |-> LoadDiffSet(diff_set_files[k])]
    /\ UNCHANGED <<lines, full_diff, diff_set_files, categorized, inventory, printed>>
    /\ UNCHANGED comparatorVars
    /\ UNCHANGED loaderVars
    /\ UNCHANGED scriptVars

CategorizeFiles ==
    /\ pc = "parsed"
    /\ categorized' = categorize_files(file_changes, DiffText(full_diff),
                                       diff_sets[1], diff_sets[2], diff_sets[3])
    /\ pc' = "categorized"
    /\ UNCHANGED <<lines, full_diff, diff_set_files, diff_sets, file_changes, inventory, printed>>
    /\ UNCHANGED comparatorVars
    /\ UNCHANGED loaderVars
    /\ UNCHANGED scriptVars

\* "Parsing diff patches...": the patch parsed and the modified files enhanced.
ParseDiffPatches ==
    /\ pc = "categorized"
    /\ categorized' = EnhanceModified(categorized, parse_diff_patch(DiffLines(full_diff)))
    /\ pc' = "enhanced"
    /\ UNCHANGED <<lines, full_diff, diff_set_files, diff_sets, file_changes, inventory, printed>>
    /\ UNCHANGED comparatorVars
    /\ UNCHANGED loaderVars
    /\ UNCHANGED scriptVars

WriteInventory ==
    /\ pc = "enhanced"
    /\ printed' = IF ModifiedAddUp(categorized) THEN printed
                  ELSE Append(printed, "WARNING: Modified files don't add up!")
    /\ inventory' = CombineResults(categorized)
    /\ pc' = "done"
    /\ UNCHANGED <<lines, full_diff, diff_set_files, diff_sets, file_changes, categorized>>
    /\ UNCHANGED comparatorVars
    /\ UNCHANGED loaderVars
    /\ UNCHANGED scriptVars

NextClassify == ParseFileChanges \/ CategorizeFiles \/ ParseDiffPatches \/ WriteInventory

SpecClassify == InitClassify /\ [][NextClassify]_vars

\* The runs with --diff-set arguments: one patch, the diff sets vary.
LabelLines ==
    {RawLine("M", AssetCss), RawLine("M", LocaleFr), RawLine("D", LicenseMd),
     RawLine("D", SectionLiquid), RawLine("A", SnippetLiquid), RawLine("A", AssetCss)}

LabelFiles ==
    {ls \in UNION {[1..n -> LabelLines] : n \in 0..MaxLines} :
        \A i, j \in 1..Len(ls) : i # j => LinePath(ls[i]) # LinePath(ls[j])}

InitLabels ==
    /\ pc = "start"
    /\ lines \in LabelFiles
    /\ full_diff = FullPatch
    /\ diff_set_files \in DiffSetTriples
    /\ diff_sets = <<NotGiven, NotGiven, NotGiven>>
    /\ file_changes = None
    /\ categorized = None
    /\ inventory = None
    /\ printed = <<>>
    /\ ComparatorIdle
    /\ LoaderIdle
    /\ ScriptIdle

SpecLabels == InitLabels /\ [][NextClassify]_vars

\* The runs over added files of every top-level directory.
BucketLines ==
    {RawLine("A", AssetCss), RawLine("A", SnippetLiquid), RawLine("A", TemplateJson),
     RawLine("A", SectionLiquid), RawLine("A", LayoutLiquid), RawLine("A", ReadmeMd),
     RawLine("A", NestedAsset), RawLine("A", AssetsFile),
     RawLine("M", LocaleFr), RawLine("M", ReadmeMd), RawLine("M", AssetCss),
     RawLine("D", LicenseMd)}

BucketFiles ==
    {ls \in UNION {[1..n -> BucketLines] : n \in 0..MaxLines} :
        \A i, j \in 1..Len(ls) : i # j => LinePath(ls[i]) # LinePath(ls[j])}

InitBuckets ==
    /\ pc = "start"
    /\ lines \in BucketFiles
    /\ full_diff = FullPatch
    /\ diff_set_files = <<Missing, Missing, Missing>>
    /\ diff_sets = <<NotGiven, NotGiven, NotGiven>>
    /\ file_changes = None
    /\ categorized = None
    /\ inventory = None
    /\ printed = <<>>
    /\ ComparatorIdle
    /\ LoaderIdle
    /\ ScriptIdle

SpecBuckets == InitBuckets /\ [][NextClassify]_vars

(***************************************************************************)
(* analyze-all-json-diffs.py: analyze_settings_schema                      *)
(***************************************************************************)
\* DeepDiff(a, b, ignore_order=True, verbose_level=2) on two setting entries:
\* the names of the fields that differ; lists are compared as unordered
\* collections at every depth, repetitions not reported.
Unordered(options) == {Range(options[i]) : i \in 1..Len(options)}

\* DeepDiff without ignore_order.
DeepDiffOrdered(a, b) ==
    {f \in {"id", "type", "label", "options"} : a[f] # b[f]}
\* A comparison of the tracked fields id, type and label only.
DeepDiffTracked(a, b) ==
    {f \in {"id", "type", "label"} : a[f] # b[f]}
DeepDiff(a, b) ==
    {f \in {"id", "type", "label"} : a[f] # b[f]}
    \cup (IF Unordered(a.options) # Unordered(b.options) THEN {"options"} ELSE {})

\* setting.get('label', default)
LabelOr(setting, default) == IF setting.label = None THEN default ELSE setting.label

\* next((item for item in doc if item.get('name') == 'theme_info'), {})
ThemeInfo(doc) ==
    LET hits == {i \in 1..Len(doc) : doc[i].name = "theme_info"}
    IN  IF hits = {} THEN [name |-> None, theme_version |-> None, settings |-> <<>>]
        ELSE doc[Min(hits)]

\* {item.get('name'): item for item in doc if item.get('name') != 'theme_info'}
SectionEntry(item) ==
    IF item.name # "theme_info" THEN <<[k |-> item.name, v |-> item]>> ELSE <<>>

SectionsMap(doc) == DictOf(<<>>, Concat([i \in 1..Len(doc) |-> SectionEntry(doc[i])]))

\* if s.get('id'): None and "" are falsy
HasId(s) == s.id # None /\ s.id # ""

\* {s.get('id'): s for s in section.get('settings', []) if s.get('id')}
SettingEntry(s) == IF HasId(s) THEN <<[k |-> s.id, v |-> s]>> ELSE <<>>

SettingsMap(section) ==
    DictOf(<<>>, Concat([i \in 1..Len(section.settings) |-> SettingEntry(section.settings[i])]))

\* ThemeInfoChanges with the first check made against the new upstream.
ThemeInfoChangesAgainstV15(v10, cur, v15) ==
    IF ThemeInfo(v10).theme_version # ThemeInfo(v15).theme_version
    THEN <<[k |-> "v10_custom",
            v |-> [old |-> ThemeInfo(v10).theme_version,
                   new |-> ThemeInfo(v15).theme_version,
                   comparison |-> "v10_upstream_vs_v10_custom"]],
           [k |-> "v15_upstream",
            v |-> [old |-> ThemeInfo(v10).theme_version,
                   new |-> ThemeInfo(v15).theme_version,
                   comparison |-> "v10_upstream_vs_v15_upstream"]]>>
    ELSE <<>>

ThemeInfoChanges(v10, cur, v15) ==
    LET v10_theme_info == ThemeInfo(v10)
        current_theme_info == ThemeInfo(cur)
        v15_theme_info == ThemeInfo(v15)
    IN  (IF v10_theme_info.theme_version # current_theme_info.theme_version
         THEN <<[k |-> "v10_custom",
                 v |-> [old |-> v10_theme_info.theme_version,
                        new |-> current_theme_info.theme_version,
                        comparison |-> "v10_upstream_vs_v10_custom"]]>>
         ELSE <<>>)
        \o (IF v10_theme_info.theme_version # v15_theme_info.theme_version
            THEN <<[k |-> "v15_upstream",
                    v |-> [old |-> v10_theme_info.theme_version,
                           new |-> v15_theme_info.theme_version,
                           comparison |-> "v10_upstream_vs_v15_upstream"]]>>
            ELSE <<>>)

\* A section record without its comparison tag.
SectionRecordUntagged(section_name, comparison, description) ==
    [name |-> section_name, description |-> description]
SectionRecord(section_name, comparison, description) ==
    [name |-> section_name, comparison |-> comparison, description |-> description]

AdditionRecord(setting_id, section_name, comparison, setting, text, shown) ==
    [id |-> setting_id, section |-> section_name, comparison |-> comparison,
     type |-> setting.type, label |-> LabelOr(setting, ""),
     description |-> <<text, section_name, shown>>]

ModificationRecord(setting_id, section_name, comparison, setting, diff, text, shown) ==
    [id |-> setting_id, section |-> section_name, comparison |-> comparison,
     type |-> setting.type, label |-> LabelOr(setting, ""),
     changes |-> diff,
     description |-> <<text, section_name, shown>>]

\* Sections of `compare` that `base` lacks, in the order of compare's dict.
NewSections(base_sections, compare_sections) ==
    SelectSeq(Keys(compare_sections), LAMBDA name : name \notin KeySet(base_sections))

\* Section records for the sections of `compare` that `base` lacks.
\* The description is the f-string: text, the name of the section, tail.
NewSectionRecords(base_sections, compare_sections, comparison, text, tail) ==
    LET names == NewSections(base_sections, compare_sections)
    IN  [i \in 1..Len(names) |->
            SectionRecord(names[i], comparison, <<text, names[i]>> \o tail)]

\* Comparison 1: the settings of one custom section, those with an id.
CustomSectionSetting(setting, section_name) ==
    IF HasId(setting)
    THEN <<AdditionRecord(setting.id, section_name, "v10_upstream_vs_v10_custom", setting,
                          "Custom setting in ", LabelOr(setting, setting.id))>>
    ELSE <<>>

CustomSectionSettings(section, section_name) ==
    Concat([i \in 1..Len(section.settings) |->
                CustomSectionSetting(section.settings[i], section_name)])

CustomAdditionsNewSections(v10_sections, current_sections) ==
    LET names == NewSections(v10_sections, current_sections)
    IN  Concat([i \in 1..Len(names) |->
                    CustomSectionSettings(Get(current_sections, names[i]), names[i])])

\* The additions of one common section: the ids of compare_settings that
\* base_settings lacks, in the order of compare's dict. `byId` says that the
\* description shows the id rather than the label.
SettingAddition(base_settings, compare_settings, setting_id, section_name, comparison, text, byId) ==
    IF setting_id \notin KeySet(base_settings)
    THEN <<AdditionRecord(setting_id, section_name, comparison,
                          Get(compare_settings, setting_id), text,
                          IF byId THEN setting_id
                          ELSE LabelOr(Get(compare_settings, setting_id), setting_id))>>
    ELSE <<>>

SectionAdditions(base_section, compare_section, section_name, comparison, text, byId) ==
    LET base_settings == SettingsMap(base_section)
        compare_settings == SettingsMap(compare_section)
        ids == Keys(compare_settings)
    IN  Concat([i \in 1..Len(ids) |->
                    SettingAddition(base_settings, compare_settings, ids[i], section_name,
                                    comparison, text, byId)])

\* The modification of one common id; `shown` is the entry whose type and label
\* the record carries.
SettingModification(base_setting, compare_setting, shown, section_name, comparison, text, byId) ==
    LET diff == DeepDiff(base_setting, compare_setting)
    IN  IF diff # {}
        THEN <<ModificationRecord(shown.id, section_name, comparison, shown, diff, text,
                                  IF byId THEN shown.id ELSE LabelOr(shown, shown.id))>>
        ELSE <<>>

\* The modifications of one common section, the common ids visited in set order.
SectionModifications(base_section, compare_section, section_name, comparison, text, shownFrom, byId, id_order) ==
    LET base_settings == SettingsMap(base_section)
        compare_settings == SettingsMap(compare_section)
        ids == IterateSet(KeySet(base_settings) \cap KeySet(compare_settings), id_order)
    IN  Concat([i \in 1..Len(ids) |->
                    SettingModification(Get(base_settings, ids[i]),
                                        Get(compare_settings, ids[i]),
                                        IF shownFrom = "base" THEN Get(base_settings, ids[i])
                                        ELSE Get(compare_settings, ids[i]),
                                        section_name, comparison, text, byId)])

CommonSections(base_sections, compare_sections, section_order) ==
    IterateSet(KeySet(base_sections) \cap KeySet(compare_sections), section_order)

\* The loop over the common sections of one comparison, for its additions.
AdditionsOfCommonSections(base_sections, compare_sections, order, comparison, text, byId) ==
    LET names == CommonSections(base_sections, compare_sections, order.sections)
    IN  Concat([i \in 1..Len(names) |->
                    SectionAdditions(Get(base_sections, names[i]),
                                     Get(compare_sections, names[i]),
                                     names[i], comparison, text, byId)])

\* The same loop, for its modifications.
ModificationsOfCommonSections(base_sections, compare_sections, order, comparison, text, shownFrom, byId) ==
    LET names == CommonSections(base_sections, compare_sections, order.sections)
    IN  Concat([i \in 1..Len(names) |->
                    SectionModifications(Get(base_sections, names[i]),
                                         Get(compare_sections, names[i]),
                                         names[i], comparison, text, shownFrom, byId,
                                         order.ids)])

Cmp1 == "v10_upstream_vs_v10_custom"
Cmp2 == "v10_upstream_vs_v15_upstream"
Cmp3 == "v10_custom_vs_v15_upstream"

\* `order` carries the iteration orders of the key-set intersections of one run:
\* order.sections for section names, order.ids for setting ids.
analyze_settings_schema(v10, cur, v15, order) ==
    LET v10_sections == SectionsMap(v10)
        current_sections == SectionsMap(cur)
        v15_sections == SectionsMap(v15)
    IN  [v10_upstream_vs_v10_custom |->
            [custom_additions |->
                CustomAdditionsNewSections(v10_sections, current_sections)
                \o AdditionsOfCommonSections(v10_sections, current_sections, order, Cmp1,
                                             "Custom setting in ", FALSE),
             modifications |->
                ModificationsOfCommonSections(v10_sections, current_sections, order, Cmp1,
                                              "Modified Dawn setting in ", "compare", FALSE),
             removals |-> <<>>,
             custom_sections |->
                NewSectionRecords(v10_sections, current_sections, Cmp1, "Custom section: ", <<>>)],
         v10_upstream_vs_v15_upstream |->
            [dawn_additions |->
                NewSectionRecords(v10_sections, v15_sections, Cmp2,
                                  "Dawn 15.4.0 added section: ", <<>>)
                \o AdditionsOfCommonSections(v10_sections, v15_sections, order, Cmp2,
                                             "Dawn 15.4.0 added setting in ", FALSE),
             dawn_modifications |->
                ModificationsOfCommonSections(v10_sections, v15_sections, order, Cmp2,
                                              "Dawn 15.4.0 modified setting in ",
                                              "compare", FALSE),
             dawn_removals |-> <<>>],
         v10_custom_vs_v15_upstream |->
            [conflict_additions |->
                NewSectionRecords(current_sections, v15_sections, Cmp3,
                                  "Conflict: Dawn 15.4.0 has section ",
                                  <<" that we don't have">>)
                \o AdditionsOfCommonSections(current_sections, v15_sections, order, Cmp3,
                                             "Conflict: Dawn 15.4.0 added setting in ", TRUE),
             conflict_modifications |->
                ModificationsOfCommonSections(current_sections, v15_sections, order, Cmp3,
                                              "Conflict: Both we and Dawn 15.4.0 modified setting in ",
                                              "base", TRUE),
             conflict_removals |-> <<>>],
         theme_info_changes |-> ThemeInfoChanges(v10, cur, v15)]

(***************************************************************************)
(* Inputs of the schema comparator                                         *)
(***************************************************************************)
Setting(id, label, options) ==
    [id |-> id, type |-> "color", label |-> label, options |-> options]

\* Variants of the setting "bg" of section "colors".
BgBase == Setting("bg", "Background", << <<"a", "b">>, <<"c">> >>)
BgRelabeled == Setting("bg", "Background Color", << <<"a", "b">>, <<"c">> >>)
BgReordered == Setting("bg", "Background", << <<"c">>, <<"a", "b">> >>)
BgNestedReordered == Setting("bg", "Background", << <<"b", "a">>, <<"c">> >>)
BgRepeated == Setting("bg", "Background", << <<"a", "b">>, <<"c">>, <<"c">> >>)
BgOptionChanged == Setting("bg", "Background", << <<"a">>, <<"c">> >>)
BgVariants ==
    {BgBase, BgRelabeled, BgReordered, BgNestedReordered, BgRepeated, BgOptionChanged}

\* Variants of the setting "fg": as is, relabeled, or absent.
FgVariants == {<<Setting("fg", "Text", <<>>)>>, <<Setting("fg", "Text Color", <<>>)>>, <<>>}

Header == [type |-> "header", id |-> None, label |-> "Layout", options |-> <<>>]
LayoutSection ==
    [name |-> "layout", theme_version |-> None,
     settings |-> <<Header, Setting("width", "Page width", <<>>)>>]
ThemeInfoItem(version) == [name |-> "theme_info", theme_version |-> version, settings |-> <<>>]

\* The tail of a document: the old theme without a layout section, or the new
\* theme with one.
Themes == {[version |-> "10.0.0", tail |-> <<>>],
           [version |-> "15.4.0", tail |-> <<LayoutSection>>]}

SchemaDoc(theme, bg, fg) ==
    <<ThemeInfoItem(theme.version),
      [name |-> "colors", theme_version |-> None, settings |-> <<bg>> \o fg]>>
    \o theme.tail

SchemaDocs ==
    {SchemaDoc(theme, bg, fg) : theme \in Themes, bg \in BgVariants, fg \in FgVariants}

\* The pristine old-upstream documents.
PristineDocs ==
    {SchemaDoc([version |-> "10.0.0", tail |-> <<>>], BgBase, fg) : fg \in FgVariants}

Orders(S) ==
    {o \in [1..Cardinality(S) -> S] : \A i, j \in 1..Cardinality(S) : i # j => o[i] # o[j]}

\* The iteration orders a hash seed can give. "width" is the only id of its
\* section, so its place in the order of the ids never shows.
HashOrders ==
    [sections : Orders({"colors", "layout"}),
     ids : {o \o <<"width">> : o \in Orders({"bg", "fg"})}]

\* A section without a name: item.get('name') is None. It has a header
\* without an id and the setting bg.
UnnamedSection(bg) == [name |-> None, theme_version |-> None, settings |-> <<Header, bg>>]

\* Documents with or without a section that has no name.
UnnamedDocs ==
    {SchemaDoc(theme, BgBase, <<>>) \o tail :
        theme \in Themes,
        tail \in {<<>>, <<UnnamedSection(BgBase)>>, <<UnnamedSection(BgRelabeled)>>}}

\* The iteration orders when None is among the keys of the section maps.
UnnamedOrders ==
    [sections : Orders({"colors", "layout", None}),
     ids : {o \o <<"width">> : o \in Orders({"bg", "fg"})}]

\* The orders that can show on the three documents of a run.
SeedOrders(docs) ==
    IF \E d \in 1..Len(docs) : \E i \in 1..Len(docs[d]) : docs[d][i].name = None
    THEN UnnamedOrders
    ELSE HashOrders

(***************************************************************************)
(* analyze-all-json-diffs.py: the schema comparator as a process           *)
(***************************************************************************)
ClassifierIdle ==
    /\ lines = <<>>
    /\ full_diff = <<>>
    /\ diff_set_files = <<>>
    /\ diff_sets = <<NotGiven, NotGiven, NotGiven>>
    /\ file_changes = None
    /\ categorized = None
    /\ inventory = None
    /\ printed = <<>>

InitSchema ==
    /\ pc = "schema"
    /\ dawn_v10 \in PristineDocs
    /\ current \in SchemaDocs
    /\ dawn_v15 \in SchemaDocs
    /\ settings_analysis = None
    /\ prev_settings_analysis = None
    /\ runs = 0
    /\ locale_analysis = None
    /\ settings_data_analysis = None
    /\ ClassifierIdle
    /\ LoaderIdle
    /\ ScriptIdle

\* One run of the comparator on the three snapshots; a later run is a new
\* process with its own hash seed.
AnalyzeSettingsSchema ==
    /\ pc \in {"schema", "schema_done"}
    /\ runs < MaxRuns
    /\ \E order \in SeedOrders(<<dawn_v10, current, dawn_v15>>) :
          settings_analysis' = analyze_settings_schema(dawn_v10, current, dawn_v15, order)
    /\ prev_settings_analysis' = settings_analysis
    /\ runs' = runs + 1
    /\ pc' = "schema_done"
    /\ UNCHANGED <<dawn_v10, current, dawn_v15, locale_analysis, settings_data_analysis>>
    /\ UNCHANGED classifierVars
    /\ UNCHANGED loaderVars
    /\ UNCHANGED scriptVars

NextSchema == AnalyzeSettingsSchema

SpecSchema == InitSchema /\ [][NextSchema]_vars

\* The schema comparator on documents that may hold a section without a name.
InitUnnamed ==
    /\ pc = "schema"
    /\ dawn_v10 \in {d \in UnnamedDocs : ThemeInfo(d).theme_version = "10.0.0"}
    /\ current \in UnnamedDocs
    /\ dawn_v15 \in UnnamedDocs
    /\ settings_analysis = None
    /\ prev_settings_analysis = None
    /\ runs = 0
    /\ locale_analysis = None
    /\ settings_data_analysis = None
    /\ ClassifierIdle
    /\ LoaderIdle
    /\ ScriptIdle

SpecUnnamed == InitUnnamed /\ [][NextSchema]_vars

(***************************************************************************)
(* analyze-all-json-diffs.py: analyze_locale and analyze_settings_data     *)
(* A flat document is a dict from key (text) to JSON value; a JSON value   *)
(* is [t |-> "str" | "list", v |-> its content], so that Python's != is    *)
(* inequality of the records.                                              *)
(***************************************************************************)
CustomPrefix == <<"c", "u", "s", "t", "o", "m", "_">>
KeyA == <<"a">>
KeyCustomB == <<"c", "u", "s", "t", "o", "m", "_", "b">>
KeyCustomC == <<"c", "u", "s", "t", "o", "m", "_", "c">>

Str(x) == [t |-> "str", v |-> <<x>>]
List(xs) == [t |-> "list", v |-> xs]

\* isinstance(value, (dict, list))
IsContainer(value) == value.t \in {"dict", "list"}

FlatAddition(key, value, comparison, text) ==
    [key |-> key, value |-> value, comparison |-> comparison,
     description |-> <<text, key>>]

FlatModification(key, old, new, comparison, text) ==
    [key |-> key, old_value |-> old, new_value |-> new, comparison |-> comparison,
     description |-> <<text, key>>]

FlatConflict(key, ours, theirs, comparison, text) ==
    [key |-> key, our_value |-> ours, dawn_value |-> theirs, comparison |-> comparison,
     description |-> <<text, key>>]

\* The custom_ filter left out.
IsCustomKeyAlways(key) == TRUE
\* key.startswith('custom_')
IsCustomKey(key) == StartsWith(key, CustomPrefix)

SignificantChangeCustomOnly(key, value) == StartsWith(key, CustomPrefix)
\* "Only track modifications for custom settings or if value changed significantly"
SignificantChange(key, value) == IsCustomKey(key) \/ IsContainer(value)

\* if key not in base: <addition>; in comparison 1 only `if key.startswith('custom_')`
AdditionOf(base, e, customOnly, comparison, text) ==
    IF e.k \notin KeySet(base) /\ (customOnly => IsCustomKey(e.k))
    THEN <<FlatAddition(e.k, e.v, comparison, text)>>
    ELSE <<>>

\* AdditionsIn followed by a record for every key of `base` that `compare`
\* lacks.
AdditionsAndRemovalsIn(base, compare, customOnly, comparison, text) ==
    Concat([i \in 1..Len(compare) |-> AdditionOf(base, compare[i], customOnly, comparison, text)])
    \o Concat([i \in 1..Len(base) |->
                  IF base[i].k \notin KeySet(compare)
                  THEN <<FlatAddition(base[i].k, base[i].v, comparison, "Removed: ")>>
                  ELSE <<>>])
\* for key, value in compare.items(): the additions
AdditionsIn(base, compare, customOnly, comparison, text) ==
    Concat([i \in 1..Len(compare) |-> AdditionOf(base, compare[i], customOnly, comparison, text)])

\* elif base[key] != value: <modification>; in comparison 1 of the settings data
\* only for a significant change
ModificationOf(base, e, significantOnly, comparison, text) ==
    IF /\ e.k \in KeySet(base)
       /\ Get(base, e.k) # e.v
       /\ (significantOnly => SignificantChange(e.k, e.v))
    THEN <<FlatModification(e.k, Get(base, e.k), e.v, comparison, text)>>
    ELSE <<>>

\* for key, value in compare.items(): the modifications
ModificationsIn(base, compare, significantOnly, comparison, text) ==
    Concat([i \in 1..Len(compare) |->
                ModificationOf(base, compare[i], significantOnly, comparison, text)])

\* elif current[key] != value: <conflict>
ConflictOf(base, e, comparison, text) ==
    IF e.k \in KeySet(base) /\ Get(base, e.k) # e.v
    THEN <<FlatConflict(e.k, Get(base, e.k), e.v, comparison, text)>>
    ELSE <<>>

ConflictsIn(base, compare, comparison, text) ==
    Concat([i \in 1..Len(compare) |-> ConflictOf(base, compare[i], comparison, text)])

\* analyze_locale with the third pair reconciled against the second: a key the
\* new upstream added is left out of conflict_additions when it is already
\* among the dawn_additions.
AnalyzeLocaleReconciled(v10, cur, v15) ==
    [v10_upstream_vs_v10_custom |->
        [custom_additions |->
            AdditionsIn(v10, cur, TRUE, Cmp1, "Custom translation key: "),
         modifications |->
            ModificationsIn(v10, cur, FALSE, Cmp1, "Modified translation: ")],
     v10_upstream_vs_v15_upstream |->
        [dawn_additions |->
            AdditionsIn(v10, v15, FALSE, Cmp2, "Dawn 15.4.0 added translation key: "),
         dawn_modifications |->
            ModificationsIn(v10, v15, FALSE, Cmp2, "Dawn 15.4.0 modified translation: ")],
     v10_custom_vs_v15_upstream |->
        [conflict_additions |->
            SelectSeq(AdditionsIn(cur, v15, FALSE, Cmp3,
                                  "Conflict: Dawn 15.4.0 has translation key that we don't have: "),
                      LAMBDA r : r.key \in KeySet(v10)),
         conflict_modifications |->
            ConflictsIn(cur, v15, Cmp3,
                        "Conflict: Both we and Dawn 15.4.0 modified translation ")]]
analyze_locale(v10, cur, v15) ==
    [v10_upstream_vs_v10_custom |->
        [custom_additions |->
            AdditionsIn(v10, cur, TRUE, Cmp1, "Custom translation key: "),
         modifications |->
            ModificationsIn(v10, cur, FALSE, Cmp1, "Modified translation: ")],
     v10_upstream_vs_v15_upstream |->
        [dawn_additions |->
            AdditionsIn(v10, v15, FALSE, Cmp2, "Dawn 15.4.0 added translation key: "),
         dawn_modifications |->
            ModificationsIn(v10, v15, FALSE, Cmp2, "Dawn 15.4.0 modified translation: ")],
     v10_custom_vs_v15_upstream |->
        [conflict_additions |->
            AdditionsIn(cur, v15, FALSE, Cmp3,
                        "Conflict: Dawn 15.4.0 has translation key that we don't have: "),
         conflict_modifications |->
            ConflictsIn(cur, v15, Cmp3,
                        "Conflict: Both we and Dawn 15.4.0 modified translation ")]]

analyze_settings_data(v10, cur, v15) ==
    [v10_upstream_vs_v10_custom |->
        [custom_additions |->
            AdditionsIn(v10, cur, TRUE, Cmp1, "Custom setting value: "),
         modifications |->
            ModificationsIn(v10, cur, TRUE, Cmp1, "Modified setting value: ")],
     v10_upstream_vs_v15_upstream |->
        [dawn_additions |->
            AdditionsIn(v10, v15, FALSE, Cmp2, "Dawn 15.4.0 added setting value: "),
         dawn_modifications |->
            ModificationsIn(v10, v15, FALSE, Cmp2, "Dawn 15.4.0 modified setting value: ")],
     v10_custom_vs_v15_upstream |->
        [conflict_additions |->
            AdditionsIn(cur, v15, FALSE, Cmp3,
                        "Conflict: Dawn 15.4.0 has setting value that we don't have: "),
         conflict_modifications |->
            ConflictsIn(cur, v15, Cmp3,
                        "Conflict: Both we and Dawn 15.4.0 modified setting value ")]]

(***************************************************************************)
(* Inputs of the flat comparators                                          *)
(***************************************************************************)
Absent == [t |-> "absent", v |-> <<>>]

ValuesOfA == {Absent, Str("1"), Str("2"), List(<<"1", "2">>), List(<<"2", "1">>)}
ValuesOfCustomB == {Absent, Str("2")}
ValuesOfCustomC == {Absent, Str("3"), Str("4")}

Entry(key, value) == IF value = Absent THEN <<>> ELSE <<[k |-> key, v |-> value]>>

FlatDocs ==
    {Entry(KeyA, a) \o Entry(KeyCustomB, b) \o Entry(KeyCustomC, c) :
        a \in ValuesOfA, b \in ValuesOfCustomB, c \in ValuesOfCustomC}

InitFlat ==
    /\ pc = "flat"
    /\ dawn_v10 \in FlatDocs
    /\ current \in FlatDocs
    /\ dawn_v15 \in FlatDocs
    /\ settings_analysis = None
    /\ prev_settings_analysis = None
    /\ runs = 0
    /\ locale_analysis = None
    /\ settings_data_analysis = None
    /\ ClassifierIdle
    /\ LoaderIdle
    /\ ScriptIdle

AnalyzeSettingsData ==
    /\ pc = "flat"
    /\ settings_data_analysis' = analyze_settings_data(dawn_v10, current, dawn_v15)
    /\ pc' = "settings_data"
    /\ UNCHANGED <<dawn_v10, current, dawn_v15, settings_analysis, prev_settings_analysis,
                   runs, locale_analysis>>
    /\ UNCHANGED classifierVars
    /\ UNCHANGED loaderVars
    /\ UNCHANGED scriptVars

AnalyzeLocale ==
    /\ pc = "settings_data"
    /\ locale_analysis' = analyze_locale(dawn_v10, current, dawn_v15)
    /\ pc' = "done"
    /\ UNCHANGED <<dawn_v10, current, dawn_v15, settings_analysis, prev_settings_analysis,
                   runs, settings_data_analysis>>
    /\ UNCHANGED classifierVars
    /\ UNCHANGED loaderVars
    /\ UNCHANGED scriptVars

NextFlat == AnalyzeSettingsData \/ AnalyzeLocale

SpecFlat == InitFlat /\ [][NextFlat]_vars

\* Both comparators of analyze-all-json-diffs.py, each on its own documents.
SpecCompare == (InitSchema \/ InitFlat) /\ [][NextSchema \/ NextFlat]_vars

(***************************************************************************)
(* analyze-all-json-diffs.py, analyze-json-diff.py: load_json              *)
(***************************************************************************)
CommentOpen == <<"/", "*">>
CommentClose == <<"*", "/">>
ArrayText == <<"[", "1", "]">>
ObjectText == <<"{", "}">>

JSONDecodeError == [ok |-> FALSE, error |-> "JSONDecodeError"]

\* json.loads on the texts of FileTexts: a document is one of the two values
\* with whitespace around it; every other text raises.
json_loads(text) ==
    IF Strip(text) = ArrayText THEN [ok |-> TRUE, value |-> [type |-> "array", items |-> <<1>>]]
    ELSE IF Strip(text) = ObjectText
         THEN [ok |-> TRUE, value |-> [type |-> "object", items |-> <<>>]]
         ELSE JSONDecodeError

\* str.find: the 0-based index of the first occurrence, or -1.
Find(s, sub) == IF Occurrences(s, sub) = {} THEN -1 ELSE Min(Occurrences(s, sub)) - 1

\* The comment is cut at the first closer that str.find meets from the start
\* of the text, whether or not it lies behind the opener.
load_json(text) ==
    IF StartsWith(Strip(text), CommentOpen)
    THEN LET end_comment == Find(text, CommentClose)
         IN  IF end_comment # -1
             THEN json_loads(Strip(SubSeq(text, end_comment + 3, Len(text))))
             ELSE json_loads(text)
    ELSE json_loads(text)

\* The pieces a file is made of.
TextParts == {<<" ">>, <<"\n">>, CommentOpen, CommentClose, <<"/">>, ArrayText, ObjectText}

FileTexts == {Concat(ps) : ps \in UNION {[1..n -> TextParts] : n \in 0..MaxParts}}

InitLoad ==
    /\ pc = "load"
    /\ file_text \in FileTexts
    /\ loaded = None
    /\ ClassifierIdle
    /\ ComparatorIdle
    /\ ScriptIdle

LoadJson ==
    /\ pc = "load"
    /\ loaded' = load_json(file_text)
    /\ pc' = "loaded"
    /\ UNCHANGED file_text
    /\ UNCHANGED classifierVars
    /\ UNCHANGED comparatorVars
    /\ UNCHANGED scriptVars

NextLoad == LoadJson

SpecLoad == InitLoad /\ [][NextLoad]_vars

(***************************************************************************)
(* The scripts of the pipeline as processes: main() and the __main__ block *)
(***************************************************************************)
\* The scripts that load the version configuration.
ConfigScripts ==
    {"generate-all-diffs", "generate-file-patches", "generate-json-patches",
     "extract-dawn-files", "version_config", "version_config KEY"}

\* The scripts that take the --config argument.
ConfigArgScripts ==
    {"generate-all-diffs", "generate-file-patches", "generate-json-patches",
     "extract-dawn-files"}

Scripts ==
    ConfigScripts
    \cup {"analyze-all-json-diffs", "analyze-json-diff", "categorize-changes",
          "extract-json-changes", "generate-diff-documentation"}

\* The number of JSON input files main() loads.
InputFiles(name) ==
    CASE name = "analyze-all-json-diffs" -> 12
      [] name = "analyze-json-diff" -> 4
      [] name = "generate-diff-documentation" -> 2
      [] name \in {"generate-file-patches", "categorize-changes", "extract-json-changes"} -> 1
      [] OTHER -> 0

Loads(n) == [i \in 1..n |-> "load"]

\* The same steps with the output directory made before anything is loaded.
MainStepsDirFirst(name) ==
    <<"mkdir">> \o (IF name \in ConfigScripts THEN <<"config">> ELSE <<>>)
    \o Loads(InputFiles(name))
    \o (IF name \in {"version_config", "version_config KEY"} THEN <<>> ELSE <<"write">>)

\* The steps of main() in the order of the source: loading the version
\* configuration, loading a JSON input, making the output directory, writing
\* the output.
MainSteps(name) ==
    CASE name \in {"generate-all-diffs", "generate-json-patches", "extract-dawn-files"} ->
            <<"config", "mkdir", "write">>
      [] name = "generate-file-patches" -> <<"config", "load", "mkdir", "write">>
      [] name \in {"version_config", "version_config KEY"} -> <<"config">>
      [] OTHER -> Loads(InputFiles(name)) \o <<"mkdir", "write">>

\* How main() ends or goes on.
Return(value) == [kind |-> "return", value |-> value, error |-> None]
Raise(error) == [kind |-> "raise", value |-> <<>>, error |-> error]
SysExit(n) == [kind |-> "sys.exit", value |-> <<n>>, error |-> None]
Continue == [kind |-> "continue", value |-> <<>>, error |-> None]

\* get_git_refs(args.config) / load_version_config() and the handler around it.
\* --config hands a str to load_version_config, which calls .exists() on it.
LoadConfigOutcome(name, cfg) ==
    IF cfg.arg THEN Raise("AttributeError")
    ELSE IF cfg.state = "missing"
    THEN CASE name = "version_config KEY" -> SysExit(1)
           [] name = "version_config" -> Return(<<>>)
           [] OTHER -> Return(<<1>>)
    ELSE IF cfg.state = "invalid"
    THEN IF name = "version_config KEY" THEN SysExit(1) ELSE Raise("JSONDecodeError")
    ELSE Continue

\* The end of main(): return 0, sys.exit(0), or falling off the end.
EndOfMain(name) ==
    IF name = "version_config KEY" THEN SysExit(0)
    ELSE IF name \in ConfigArgScripts THEN Return(<<0>>)
    ELSE Return(<<>>)

\* The exit status the __main__ block gives: only extract-dawn-files passes
\* the return value of main() to exit().
ExitStatus(name, end) ==
    IF end.kind = "raise" THEN 1
    ELSE IF end.kind = "sys.exit" THEN end.value[1]
    ELSE IF name = "extract-dawn-files" /\ end.value # <<>> THEN end.value[1]
    ELSE 0

Configs(name) ==
    IF name \in ConfigScripts
    THEN [state : {"missing", "present", "invalid"},
          arg : IF name \in ConfigArgScripts THEN BOOLEAN ELSE {FALSE}]
    ELSE {[state |-> "present", arg |-> FALSE]}

InitScripts ==
    /\ pc = "main"
    /\ script \in Scripts
    /\ config \in Configs(script)
    /\ bad_input \in 0..InputFiles(script)
    /\ step = 0
    /\ job = <<>>
    /\ disk = {}
    /\ ended = <<>>
    /\ exit_code = <<>>
    /\ ClassifierIdle
    /\ ComparatorIdle
    /\ LoaderIdle

NextStep == IF step < Len(MainSteps(script)) THEN MainSteps(script)[step + 1] ELSE "end"

LoadVersionConfig ==
    /\ pc = "main"
    /\ NextStep = "config"
    /\ IF LoadConfigOutcome(script, config) = Continue
       THEN step' = step + 1 /\ UNCHANGED <<pc, ended>>
       ELSE ended' = <<LoadConfigOutcome(script, config)>> /\ pc' = "ended" /\ UNCHANGED step
    /\ UNCHANGED <<script, config, bad_input, job, disk, exit_code>>
    /\ UNCHANGED <<classifierVars, comparatorVars, loaderVars>>

\* json.load / load_json of the next input file.
LoadInput ==
    /\ pc = "main"
    /\ NextStep = "load"
    /\ IF bad_input = Cardinality({i \in 1..(step + 1) : MainSteps(script)[i] = "load"})
       THEN ended' = <<Raise("JSONDecodeError")>> /\ pc' = "ended" /\ UNCHANGED step
       ELSE step' = step + 1 /\ UNCHANGED <<pc, ended>>
    /\ UNCHANGED <<script, config, bad_input, job, disk, exit_code>>
    /\ UNCHANGED <<classifierVars, comparatorVars, loaderVars>>

MakeOutputDir ==
    /\ pc = "main"
    /\ NextStep = "mkdir"
    /\ disk' = disk \cup {"output_dir"}
    /\ step' = step + 1
    /\ UNCHANGED <<pc, script, config, bad_input, job, ended, exit_code>>
    /\ UNCHANGED <<classifierVars, comparatorVars, loaderVars>>

WriteOutput ==
    /\ pc = "main"
    /\ NextStep = "write"
    /\ disk' = disk \cup {"output_file"}
    /\ step' = step + 1
    /\ UNCHANGED <<pc, script, config, bad_input, job, ended, exit_code>>
    /\ UNCHANGED <<classifierVars, comparatorVars, loaderVars>>

ReturnFromMain ==
    /\ pc = "main"
    /\ NextStep = "end"
    /\ ended' = <<EndOfMain(script)>>
    /\ pc' = "ended"
    /\ UNCHANGED <<script, config, bad_input, step, job, disk, exit_code>>
    /\ UNCHANGED <<classifierVars, comparatorVars, loaderVars>>

\* The process ends: an uncaught exception gives status 1.
Exit ==
    /\ pc = "ended"
    /\ exit_code' = <<ExitStatus(script, ended[1])>>
    /\ pc' = "exited"
    /\ UNCHANGED <<script, config, bad_input, step, job, disk, ended>>
    /\ UNCHANGED <<classifierVars, comparatorVars, loaderVars>>

NextScripts ==
    LoadVersionConfig \/ LoadInput \/ MakeOutputDir \/ WriteOutput \/ ReturnFromMain \/ Exit

SpecScripts == InitScripts /\ [][NextScripts]_vars

(***************************************************************************)
(* extract-json-changes.py, generate-file-patches.py: runs into one        *)
(* output directory                                                        *)
(***************************************************************************)
\* open(name, 'w') and a write: the file holds what this run wrote.
WriteFile(files, name, text) ==
    {f \in files : f.name # name} \cup {[name |-> name, content |-> text]}

\* `if comp.get(key): json.dump(...)`: an empty list writes nothing.
DumpIfAny(files, name, items) == IF items # <<>> THEN WriteFile(files, name, items) ELSE files

\* Two of the lists extract_json_changes writes out.
extract_json_changes(json_changes, files) ==
    DumpIfAny(DumpIfAny(files, "settings_schema-additions.json",
                        json_changes.settings_schema.v10_upstream_vs_v10_custom.custom_additions),
              "locale_en-dawn-modifications.json",
              json_changes.locale_en.v10_upstream_vs_v15_upstream.dawn_modifications)

\* filepath.replace('/', '-').replace('\\', '-') and the suffix of the patch file.
SafeName(filepath) ==
    [i \in 1..Len(filepath) |-> IF filepath[i] \in {"/", "\\"} THEN "-" ELSE filepath[i]]
    \o <<".", "p", "a", "t", "c", "h">>

\* The patch is written when git gave a diff that is not blank.
generate_patch_for_file(filepath, stdout, files) ==
    IF Strip(stdout) # <<>> THEN WriteFile(files, SafeName(filepath), stdout) ELSE files

\* The loop of main() over the files to patch, each a key of the modified files
\* of the inventory (the loop over the files to revert writes its patches the
\* same way); inv.git_diff[i] is what git prints for the i-th listed file.
RECURSIVE GeneratePatches(_, _, _)
GeneratePatches(inv, i, files) ==
    IF i > Len(inv.files_to_patch_modified) THEN files
    ELSE GeneratePatches(inv, i + 1,
            generate_patch_for_file(inv.files_to_patch_modified[i], inv.git_diff[i], files))

\* The inputs of a run.
ItemLists == {<<>>, <<"x">>, <<"y">>}
JsonChanges ==
    {[settings_schema |-> [v10_upstream_vs_v10_custom |-> [custom_additions |-> a]],
      locale_en |-> [v10_upstream_vs_v15_upstream |-> [dawn_modifications |-> m]]] :
        a \in ItemLists, m \in ItemLists}

DiffOutputs == {<<>>, <<"\n">>, <<"-", "a", "\n">>, <<"+", "b", "\n">>}
\* Two paths that differ in where the '/' stands.
AssetsOldX == <<"a", "s", "s", "e", "t", "s", "/", "o", "l", "d", "-", "x">>
AssetsOldDirX == <<"a", "s", "s", "e", "t", "s", "-", "o", "l", "d", "/", "x">>

Inventories ==
    {[files_to_patch_modified |-> <<>>, git_diff |-> <<>>]}
    \cup {[files_to_patch_modified |-> <<f>>, git_diff |-> <<d>>] :
            f \in {AssetCss, SectionLiquid}, d \in DiffOutputs}
    \cup {[files_to_patch_modified |-> fs, git_diff |-> <<<<"-", "a", "\n">>, <<"+", "b", "\n">>>>] :
            fs \in {<<AssetCss, SectionLiquid>>, <<AssetsOldX, AssetsOldDirX>>}}

Jobs(name) == IF name = "extract-json-changes" THEN JsonChanges ELSE Inventories

InitReruns ==
    /\ pc = "rerun"
    /\ script \in {"extract-json-changes", "generate-file-patches"}
    /\ job \in [1..MaxRuns -> Jobs(script)]
    /\ step = 0
    /\ disk = {}
    /\ config = None
    /\ bad_input = 0
    /\ ended = <<>>
    /\ exit_code = <<>>
    /\ ClassifierIdle
    /\ ComparatorIdle
    /\ LoaderIdle

ExtractJsonChanges ==
    /\ pc = "rerun"
    /\ script = "extract-json-changes"
    /\ step < MaxRuns
    /\ disk' = extract_json_changes(job[step + 1], disk)
    /\ step' = step + 1
    /\ UNCHANGED <<pc, script, config, bad_input, job, ended, exit_code>>
    /\ UNCHANGED <<classifierVars, comparatorVars, loaderVars>>

GenerateFilePatches ==
    /\ pc = "rerun"
    /\ script = "generate-file-patches"
    /\ step < MaxRuns
    /\ disk' = GeneratePatches(job[step + 1], 1, disk)
    /\ step' = step + 1
    /\ UNCHANGED <<pc, script, config, bad_input, job, ended, exit_code>>
    /\ UNCHANGED <<classifierVars, comparatorVars, loaderVars>>

NextReruns == ExtractJsonChanges \/ GenerateFilePatches

SpecReruns == InitReruns /\ [][NextReruns]_vars

(***************************************************************************)
(* generate-all-diffs.py as a process: the version configuration, the      *)
(* output directory, the eighteen git invocations                          *)
(***************************************************************************)
\* The most git invocations of one run that do not end clean.
MaxFailures == 1

GitKeys == {"current_branch", "comparison_ref", "destination_ref"}
VersionKeys == {"current.full_version", "comparison.dawn_base", "destination.dawn_base"}

\* What the configuration file gives for a key of git_config.
Configured(key) ==
    CASE key = "current_branch" -> "develop"
      [] key = "comparison_ref" -> "dawn-10"
      [] key = "destination_ref" -> "dawn-15"

\* git_config.get(key, default)
GitRef(cfg, key, default) == IF key \in cfg.git_config THEN Configured(key) ELSE default

\* get_git_refs: config.get('git_config', {}) and a default for every key
get_git_refs(cfg) ==
    [current |-> GitRef(cfg, "current_branch", "HEAD"),
     comparison |-> GitRef(cfg, "comparison_ref", "v10.0.0"),
     destination |-> GitRef(cfg, "destination_ref", "upstream/main")]

\* The configuration files: absent, or present with some of the keys of
\* git_config (none when the object itself is absent) and some of the
\* version strings the script reads.
DiffConfigs ==
    {[state |-> "missing", arg |-> FALSE, git_config |-> {}, versions |-> {}]}
    \cup [state : {"present"}, arg : {FALSE},
          git_config : SUBSET GitKeys, versions : SUBSET VersionKeys]

\* The start of main(): the try block around get_git_refs and
\* get_version_info, then the subscripts version_info[...]['full_version']
\* and version_info[...]['dawn_base'].
LoadDiffsConfig(cfg) ==
    IF cfg.state = "missing" THEN Return(<<1>>)
    ELSE IF ~(VersionKeys \subseteq cfg.versions) THEN Raise("KeyError")
    ELSE Continue

DiffSetNames ==
    <<"01-v10-upstream-vs-v10-custom", "02-v10-custom-vs-v15-upstream",
      "03-v10-upstream-vs-v15-upstream">>
DiffFileNames ==
    <<"file-changes.txt", "full-diff.patch", "liquid.patch", "js.patch", "css.patch",
      "json.patch">>

\* The base and compare refs of the three diff sets.
DiffSetRefs(refs) ==
    <<[base |-> refs.comparison, compare |-> refs.current],
      [base |-> refs.current, compare |-> refs.destination],
      [base |-> refs.comparison, compare |-> refs.destination]>>

\* The git invocations of main() in the order of the source: for each diff
\* set run_git_diff_name_status, then run_git_diff for the full diff and for
\* the four file patterns.
GitInvocation(refs, n) ==
    LET s == ((n - 1) \div Len(DiffFileNames)) + 1
        f == ((n - 1) % Len(DiffFileNames)) + 1
    IN  [file |-> <<DiffSetNames[s], DiffFileNames[f]>>,
         function |-> IF f = 1 THEN "run_git_diff_name_status" ELSE "run_git_diff",
         base |-> DiffSetRefs(refs)[s].base,
         compare |-> DiffSetRefs(refs)[s].compare]

GitInvocations(refs) ==
    [n \in 1..(Len(DiffSetNames) * Len(DiffFileNames)) |-> GitInvocation(refs, n)]

\* How a git process can end: clean, with a warning on stderr, with a fatal
\* error, killed by a signal.
GitOutcomes ==
    {[returncode |-> 0, stderr |-> ""],
     [returncode |-> 0, stderr |-> "warning: ..."],
     [returncode |-> 128, stderr |-> "fatal: bad revision"],
     [returncode |-> -9, stderr |-> ""]}

Clean(outcome) == outcome.returncode = 0 /\ outcome.stderr = ""

\* print(f"  Warning: {result.stderr}") of run_git_diff;
\* run_git_diff_name_status prints nothing.
Warned(function, outcome) ==
    /\ function = "run_git_diff"
    /\ outcome.returncode # 0
    /\ outcome.stderr # ""

InitDiffs ==
    /\ pc = "diffs_config"
    /\ script = "generate-all-diffs"
    /\ config \in DiffConfigs
    /\ bad_input = 0
    /\ step = 0
    /\ job = <<>>
    /\ disk = {}
    /\ ended = <<>>
    /\ exit_code = <<>>
    /\ ClassifierIdle
    /\ ComparatorIdle
    /\ LoaderIdle

LoadGitRefs ==
    /\ pc = "diffs_config"
    /\ IF LoadDiffsConfig(config) = Continue
       THEN pc' = "diffs_mkdir" /\ UNCHANGED ended
       ELSE ended' = <<LoadDiffsConfig(config)>> /\ pc' = "ended"
    /\ UNCHANGED <<script, config, bad_input, step, job, disk, exit_code>>
    /\ UNCHANGED <<classifierVars, comparatorVars, loaderVars>>

\* output_dir.mkdir(parents=True, exist_ok=True)
MakeDiffsDir ==
    /\ pc = "diffs_mkdir"
    /\ disk' = disk \cup {<<"output_dir">>}
    /\ pc' = "diffs_git"
    /\ UNCHANGED <<script, config, bad_input, step, job, ended, exit_code>>
    /\ UNCHANGED <<classifierVars, comparatorVars, loaderVars>>

\* The next call of run_git_diff_name_status or run_git_diff: the output
\* file is opened for writing, git runs with it as stdout, and ends somehow.
RunGit ==
    /\ pc = "diffs_git"
    /\ step < Len(GitInvocations(get_git_refs(config)))
    /\ \E outcome \in GitOutcomes :
          LET call == GitInvocations(get_git_refs(config))[step + 1]
          IN  /\ ~Clean(outcome) => bad_input < MaxFailures
              /\ bad_input' = IF Clean(outcome) THEN bad_input ELSE bad_input + 1
              /\ job' = Append(job, [file |-> call.file, function |-> call.function,
                                     base |-> call.base, compare |-> call.compare,
                                     returncode |-> outcome.returncode,
                                     stderr |-> outcome.stderr,
                                     warned |-> Warned(call.function, outcome)])
              /\ disk' = disk \cup {call.file}
    /\ step' = step + 1
    /\ UNCHANGED <<pc, script, config, ended, exit_code>>
    /\ UNCHANGED <<classifierVars, comparatorVars, loaderVars>>

\* return 0 after the last invocation
ReturnFromDiffs ==
    /\ pc = "diffs_git"
    /\ step = Len(GitInvocations(get_git_refs(config)))
    /\ ended' = <<Return(<<0>>)>>
    /\ pc' = "ended"
    /\ UNCHANGED <<script, config, bad_input, step, job, disk, exit_code>>
    /\ UNCHANGED <<classifierVars, comparatorVars, loaderVars>>

NextDiffs == LoadGitRefs \/ MakeDiffsDir \/ RunGit \/ ReturnFromDiffs \/ Exit

SpecDiffs == InitDiffs /\ [][NextDiffs]_vars

(***************************************************************************)
(* generate-diff-documentation.py: the executive summary and the           *)
(* validation lines of the report. A line of the document is the sequence  *)
(* of its pieces: fixed text, and the characters of a formatted count.     *)
(* The sections that list files and JSON changes are left to their         *)
(* headings: each of their lines starts with a heading, list or quote      *)
(* marker.                                                                 *)
(***************************************************************************)
\* str(n) for a count
RECURSIVE Decimal(_)
Decimal(n) ==
    IF n < 10 THEN <<Digits[n + 1]>>
    ELSE Decimal(n \div 10) \o <<Digits[(n % 10) + 1]>>

\* The counts of the summary in the order in which the report shows them,
\* with the text before and after the count.
SummaryLines ==
    <<[key |-> "custom_files_count", text |-> "- **Custom files added:** ", tail |-> <<>>],
      [key |-> "modified_dawn_files_count", text |-> "- **Dawn files modified:** ",
       tail |-> <<>>],
      [key |-> "files_to_revert_count",
       text |-> "  - Files to revert to clean Dawn 15.4.0: ",
       tail |-> <<" (non-English locales)">>],
      [key |-> "files_to_patch_modified_count",
       text |-> "  - Files to patch with customizations: ", tail |-> <<>>],
      [key |-> "removed_dawn_files_count", text |-> "- **Dawn files removed:** ",
       tail |-> <<>>],
      [key |-> "files_to_restore_count", text |-> "  - Files to restore from Dawn 15.4.0: ",
       tail |-> <<>>],
      [key |-> "files_to_accept_dawn_15_4_count",
       text |-> "  - Files to accept Dawn 15.4.0 versions: ", tail |-> <<>>],
      [key |-> "files_to_patch_deleted_count",
       text |-> "    - Files to patch with customizations: ", tail |-> <<>>]>>

\* f"{text}{summary.get(key, 0)}{tail}"
CountLine(text, count, tail) == <<text>> \o Decimal(count) \o tail

\* The summary with the count of the patched modified files shown on the
\* line of the patched deleted files as well.
ExecutiveSummaryOneCountTwice(summary) ==
    <<<<"## Executive Summary">>, <<"">>>>
    \o [i \in 1..Len(SummaryLines) |->
            CountLine(SummaryLines[i].text,
                      IF SummaryLines[i].key = "files_to_patch_deleted_count"
                      THEN summary.files_to_patch_modified_count
                      ELSE summary[SummaryLines[i].key],
                      SummaryLines[i].tail)]
    \o <<<<"">>>>

ExecutiveSummary(summary) ==
    <<<<"## Executive Summary">>, <<"">>>>
    \o [i \in 1..Len(SummaryLines) |->
            CountLine(SummaryLines[i].text, summary[SummaryLines[i].key],
                      SummaryLines[i].tail)]
    \o <<<<"">>>>

\* The check mark and the cross of the source are written [ok] and [x].
PassModified == <<"[ok] Modified files = Revert + Patch (math checks out)">>
WarnModified == <<"[x] WARNING: Modified files don't equal Revert + Patch!">>
PassRemoved == <<"[ok] Removed files = Restore + Accept (math checks out)">>
WarnRemoved == <<"[x] WARNING: Removed files don't equal Restore + Accept!">>

\* validation = summary.get('validation', {}); if validation: ...
\* An absent validation object is <<>>.
ValidationLines(validation) ==
    IF validation = <<>> THEN <<>>
    ELSE <<<<"### Validation">>, <<"">>,
           IF validation[1].modified_equals_revert_plus_patch THEN PassModified
           ELSE WarnModified,
           IF validation[1].removed_equals_restore_plus_accept THEN PassRemoved
           ELSE WarnRemoved,
           <<"">>>>

\* The lines of the document in the order of main().
DocumentLines(inv) ==
    <<<<"# Dawn 15.4 Upgrade - Custom Changes Analysis">>, <<"">>,
      <<"## Purpose">>, <<"## Patch File Format">>>>
    \o ExecutiveSummary(inv.summary)
    \o ValidationLines(inv.summary.validation)
    \o <<<<"### Action Categories">>, <<"## Configuration Changes">>, <<"## Custom Files">>,
         <<"## Modified Dawn Files">>, <<"## Removed Dawn Files">>,
         <<"## Files to Restore from Dawn 15.4.0">>, <<"## Key Integration Points">>>>

\* The inventories the report is made from: every count absent from the
\* files (0) or a number of its own, the validation object absent or as the
\* classifier writes it.
SummaryCount(i, given) == IF given THEN 10 + i ELSE 0

Validations ==
    {<<>>}
    \cup {<<v>> : v \in [modified_equals_revert_plus_patch : BOOLEAN,
                         removed_equals_restore_plus_accept : BOOLEAN]}

ReportInventories ==
    {[summary |->
        [custom_files_count |-> SummaryCount(1, c[1]),
         modified_dawn_files_count |-> SummaryCount(2, c[2]),
         files_to_revert_count |-> SummaryCount(3, c[3]),
         files_to_patch_modified_count |-> SummaryCount(4, c[4]),
         removed_dawn_files_count |-> SummaryCount(5, c[5]),
         files_to_restore_count |-> SummaryCount(6, c[6]),
         files_to_accept_dawn_15_4_count |-> SummaryCount(7, c[7]),
         files_to_patch_deleted_count |-> SummaryCount(8, c[8]),
         validation |-> v]] :
        c \in [1..Len(SummaryLines) -> BOOLEAN], v \in Validations}

\* `loaded` is the inventory main() loaded, file_text the document it writes.
InitReport ==
    /\ pc = "report"
    /\ loaded \in ReportInventories
    /\ file_text = <<>>
    /\ ClassifierIdle
    /\ ComparatorIdle
    /\ ScriptIdle

GenerateDocumentation ==
    /\ pc = "report"
    /\ file_text' = DocumentLines(loaded)
    /\ pc' = "reported"
    /\ UNCHANGED loaded
    /\ UNCHANGED classifierVars
    /\ UNCHANGED comparatorVars
    /\ UNCHANGED scriptVars

NextReport == GenerateDocumentation

SpecReport == InitReport /\ [][NextReport]_vars

(***************************************************************************)
(* parse_diff_patch on hunks of every shape (categorize-changes.py)        *)
(***************************************************************************)
MaxHunkLines == 3

\* The new-file start the hunk of the first file is written with.
HunkStart == 5

ContextLine == <<" ", "c", "\n">>
\* An added line whose text is empty.
BlankAddedLine == <<"+", "\n">>
HunkLineKinds == {ContextLine, AddedLine, BlankAddedLine, RemovedLine}

\* The body of a hunk as git writes it: at least one line is a change.
HunkBodies ==
    UNION {{b \in [1..n -> HunkLineKinds] : \E k \in 1..n : b[k] # ContextLine} :
           n \in 1..MaxHunkLines}

LinesOfKinds(body, kinds) == Cardinality({k \in 1..Len(body) : body[k] \in kinds})

\* One side of a hunk header as git writes it: start[,count], the count left
\* out when it is 1, and the line before the hunk when the side is empty.
HunkSide(start, count) ==
    IF count = 1 THEN Decimal(start)
    ELSE IF count = 0 THEN Decimal(start - 1) \o <<",", "0">>
    ELSE Decimal(start) \o <<",">> \o Decimal(count)

HunkHeaderFor(start, body) ==
    HunkOpen
    \o HunkSide(start, LinesOfKinds(body, {ContextLine, RemovedLine}))
    \o HunkPlus
    \o HunkSide(start, LinesOfKinds(body, {ContextLine, AddedLine, BlankAddedLine}))
    \o HunkClose \o <<"\n">>

\* The section of one modified file with one hunk.
PatchSection(path, start, body) ==
    <<DiffGitA \o path \o SpaceB \o path \o <<"\n">>,
      MinusA \o path \o <<"\n">>,
      PlusB \o path \o <<"\n">>,
      HunkHeaderFor(start, body)>> \o body

\* The hunk of the file that follows in the patch: it starts at line 1.
NextFileBody == <<ContextLine, AddedLine>>

\* The patch files parse_diff_patch reads: one file with a hunk at HunkStart,
\* alone or followed by a second file.
PatchFiles ==
    {PatchSection(AssetCss, HunkStart, b) \o rest :
        b \in HunkBodies,
        rest \in {<<>>, PatchSection(SectionLiquid, 1, NextFileBody)}}

\* file_text holds the lines of the patch file, `loaded` what parse_diff_patch
\* returned for it.
InitPatch ==
    /\ pc = "patch"
    /\ file_text \in PatchFiles
    /\ loaded = None
    /\ ClassifierIdle
    /\ ComparatorIdle
    /\ ScriptIdle

ParseDiffPatch ==
    /\ pc = "patch"
    /\ loaded' = parse_diff_patch(file_text)
    /\ pc' = "patched"
    /\ UNCHANGED file_text
    /\ UNCHANGED classifierVars
    /\ UNCHANGED comparatorVars
    /\ UNCHANGED scriptVars

NextPatch == ParseDiffPatch

SpecPatch == InitPatch /\ [][NextPatch]_vars

(***************************************************************************)
(* Claims about the file classifier (SpecClassify)                         *)
(***************************************************************************)
Indices(s) == 1..Len(s)

\* C1: in every inventory the number of modified_dawn_files equals
\* len(files_to_revert_to_clean) + len(files_to_patch_modified), the number of
\* removed_dawn_files equals len(files_to_restore_from_dawn) +
\* len(files_to_accept_dawn_15_4), both validation flags are true and the
\* "Modified files don't add up" warning is not printed.
C1_CountingIdentities ==
    pc = "done" =>
        /\ Len(inventory.modified_dawn_files)
              = Len(inventory.files_to_revert_to_clean) + Len(inventory.files_to_patch_modified)
        /\ Len(inventory.removed_dawn_files)
              = Len(inventory.files_to_restore_from_dawn)
                + Len(inventory.files_to_accept_dawn_15_4)
        /\ inventory.summary.validation.modified_equals_revert_plus_patch
        /\ inventory.summary.validation.removed_equals_restore_plus_accept
        /\ printed = <<>>

C1_Witness ==
    /\ pc = "done"
    /\ Len(inventory.modified_dawn_files) = 1
    /\ Len(inventory.files_to_accept_dawn_15_4) = 1

\* What the claim C2 calls a path to revert: under locales/ with a file name
\* that does not start with "en.", or exactly README.md.
ClaimedRevert(filepath) ==
    \/ StartsWith(filepath, LocalesDir) /\ ~StartsWith(PathName(filepath), <<"e", "n", ".">>)
    \/ filepath = ReadmeMd

\* C2: a modified path is marked revert_to_clean, and listed in
\* files_to_revert_to_clean and not in files_to_patch_modified, if and only if
\* it is under locales/ with a file name not starting with "en." or is
\* README.md; every other modified path is listed in files_to_patch_modified;
\* a non-English locale carries the non-English-locale reason.
C2_RevertIffNonEnglishLocaleOrReadme ==
    pc = "done" =>
        \A i \in Indices(inventory.modified_dawn_files) :
            LET info == inventory.modified_dawn_files[i]
            IN  /\ info.revert_to_clean <=> ClaimedRevert(info.path)
                /\ info.revert_to_clean =>
                      /\ info.path \in Range(inventory.files_to_revert_to_clean)
                      /\ info.path \notin Range(inventory.files_to_patch_modified)
                /\ ~info.revert_to_clean =>
                      info.path \in Range(inventory.files_to_patch_modified)
                /\ (info.revert_to_clean /\ info.path # ReadmeMd) =>
                      info.reason = "Non-English locale - custom features only support English"

\* Whether the part of the patch that belongs to the path has an added line.
OwnSectionHasAddedLine(filepath) ==
    \E i \in Indices(full_diff) :
        /\ full_diff[i].path = filepath
        /\ HasAddedLine(Concat(SectionLines(full_diff[i])))

\* C3: for a deleted dev/config path has_customizations is true if and only if
\* the part of the raw diff that belongs to that path contains an added line;
\* added lines of other files' sections never affect it.
C3_CustomizationsFromOwnSection ==
    pc = "done" =>
        \A i \in Indices(inventory.removed_dawn_files) :
            LET f == inventory.removed_dawn_files[i]
            IN  f.accept_dawn_15_4 =>
                    (f.has_customizations <=> OwnSectionHasAddedLine(f.path))

\* What the claim C4 calls dev/config infrastructure: under one of the two
\* listed directories, or exactly one of the listed file names.
ClaimedDevConfig(filepath) ==
    \/ StartsWith(filepath, GithubDir)
    \/ StartsWith(filepath, VscodeDir)
    \/ filepath \in {Gitignore, PrettierRc, ThemeCheck, LicenseMd, ReleaseNotes, TranslationYml}

\* C4: a deleted path is marked accept_dawn_15_4 and not should_restore exactly
\* when it matches the fixed list as a directory prefix or exact file name;
\* every other deleted path is marked should_restore, not accept_dawn_15_4,
\* with has_customizations false; the two flags always differ.
C4_AcceptIffDevConfig ==
    pc = "done" =>
        \A i \in Indices(inventory.removed_dawn_files) :
            LET f == inventory.removed_dawn_files[i]
            IN  /\ (f.accept_dawn_15_4 /\ ~f.should_restore) <=> ClaimedDevConfig(f.path)
                /\ ~ClaimedDevConfig(f.path) =>
                      f.should_restore /\ ~f.accept_dawn_15_4 /\ ~f.has_customizations
                /\ f.accept_dawn_15_4 # f.should_restore

(***************************************************************************)
(* Claims about the schema comparator (SpecSchema)                         *)
(***************************************************************************)
\* The three comparison pairs of the latest run with their result lists.
SchemaPairs ==
    <<[base |-> dawn_v10, compare |-> current,
       additions |-> settings_analysis.v10_upstream_vs_v10_custom.custom_additions,
       modifications |-> settings_analysis.v10_upstream_vs_v10_custom.modifications,
       removals |-> settings_analysis.v10_upstream_vs_v10_custom.removals,
       sections |-> settings_analysis.v10_upstream_vs_v10_custom.custom_sections,
       notes |-> {"v10_custom"}],
      [base |-> dawn_v10, compare |-> dawn_v15,
       additions |-> settings_analysis.v10_upstream_vs_v15_upstream.dawn_additions,
       modifications |-> settings_analysis.v10_upstream_vs_v15_upstream.dawn_modifications,
       removals |-> settings_analysis.v10_upstream_vs_v15_upstream.dawn_removals,
       sections |-> <<>>,
       notes |-> {"v15_upstream"}],
      [base |-> current, compare |-> dawn_v15,
       additions |-> settings_analysis.v10_custom_vs_v15_upstream.conflict_additions,
       modifications |-> settings_analysis.v10_custom_vs_v15_upstream.conflict_modifications,
       removals |-> settings_analysis.v10_custom_vs_v15_upstream.conflict_removals,
       sections |-> <<>>,
       notes |-> {}]>>

\* The records of a list that are about setting `id` of section `section`.
RecordsFor(list, section, id) ==
    {i \in Indices(list) :
        /\ "id" \in DOMAIN list[i]
        /\ list[i].id = id
        /\ list[i].section = section}

\* <<section name, setting id>> of the settings present on both sides of a pair.
CommonEntries(pair) ==
    {<<name, id>> \in (KeySet(SectionsMap(pair.base)) \cap KeySet(SectionsMap(pair.compare)))
                      \X {"bg", "fg", "width"} :
        /\ id \in KeySet(SettingsMap(Get(SectionsMap(pair.base), name)))
        /\ id \in KeySet(SettingsMap(Get(SectionsMap(pair.compare), name)))}

BaseEntry(pair, e) == Get(SettingsMap(Get(SectionsMap(pair.base), e[1])), e[2])
CompareEntry(pair, e) == Get(SettingsMap(Get(SectionsMap(pair.compare), e[1])), e[2])

ExactlyOneModification(pair, e) ==
    /\ Cardinality(RecordsFor(pair.modifications, e[1], e[2])) = 1
    /\ \A i \in RecordsFor(pair.modifications, e[1], e[2]) : pair.modifications[i].changes # {}
    /\ RecordsFor(pair.additions, e[1], e[2]) = {}

SameElements(xs, ys) ==
    /\ \A i \in Indices(xs) : \E j \in Indices(ys) : Range(xs[i]) = Range(ys[j])
    /\ \A j \in Indices(ys) : \E i \in Indices(xs) : Range(xs[i]) = Range(ys[j])

DiffersBeyondOrder(a, b) ==
    \/ a.type # b.type
    \/ a.label # b.label
    \/ ~SameElements(a.options, b.options)

C7_RunsAgree ==
    runs >= 2 => settings_analysis = prev_settings_analysis

IsPermutation(xs, ys) ==
    /\ Len(xs) = Len(ys)
    /\ \E f \in [Indices(xs) -> Indices(ys)] :
          /\ \A i, j \in Indices(xs) : i # j => f[i] # f[j]
          /\ \A i \in Indices(xs) : xs[i] = ys[f[i]]

\* b is a with the elements of its array-valued field reordered, at the outer
\* or the inner depth, and nothing else changed.
IsReordering(a, b) ==
    /\ a.id = b.id /\ a.type = b.type /\ a.label = b.label
    /\ Len(a.options) = Len(b.options)
    /\ \E f \in [Indices(a.options) -> Indices(b.options)] :
          /\ \A i, j \in Indices(a.options) : i # j => f[i] # f[j]
          /\ \A i \in Indices(a.options) : IsPermutation(a.options[i], b.options[f[i]])

\* C10: a setting whose array-valued field is only reordered, at any depth,
\* gets no modification record in any comparison pair.
C10_ReorderingIsNoModification ==
    runs >= 1 =>
        \A k \in Indices(SchemaPairs) : \A e \in CommonEntries(SchemaPairs[k]) :
            IsReordering(BaseEntry(SchemaPairs[k], e), CompareEntry(SchemaPairs[k], e)) =>
                RecordsFor(SchemaPairs[k].modifications, e[1], e[2]) = {}

C10_Witness ==
    /\ runs >= 1
    /\ \E e \in CommonEntries(SchemaPairs[1]) :
          /\ BaseEntry(SchemaPairs[1], e) = BgBase
          /\ CompareEntry(SchemaPairs[1], e) = BgNestedReordered
    /\ \E e \in CommonEntries(SchemaPairs[3]) :
          /\ BaseEntry(SchemaPairs[3], e) = BgNestedReordered
          /\ CompareEntry(SchemaPairs[3], e) = BgReordered
    /\ settings_analysis.v10_upstream_vs_v10_custom.modifications = <<>>
    /\ settings_analysis.v10_custom_vs_v15_upstream.conflict_modifications = <<>>

(***************************************************************************)
(* Claims about the flat comparators (SpecFlat) and both (SpecCompare)     *)
(***************************************************************************)
\* The three comparison pairs of a flat analysis with their result lists.
FlatPairs(analysis) ==
    <<[base |-> dawn_v10, compare |-> current,
       additions |-> analysis.v10_upstream_vs_v10_custom.custom_additions,
       modifications |-> analysis.v10_upstream_vs_v10_custom.modifications],
      [base |-> dawn_v10, compare |-> dawn_v15,
       additions |-> analysis.v10_upstream_vs_v15_upstream.dawn_additions,
       modifications |-> analysis.v10_upstream_vs_v15_upstream.dawn_modifications],
      [base |-> current, compare |-> dawn_v15,
       additions |-> analysis.v10_custom_vs_v15_upstream.conflict_additions,
       modifications |-> analysis.v10_custom_vs_v15_upstream.conflict_modifications]>>

\* <<analyze_locale's result, analyze_settings_data's result>>
FlatAnalyses == <<locale_analysis, settings_data_analysis>>

KeyRecords(list, key) == {i \in Indices(list) : list[i].key = key}

OneAddition(pair, e) ==
    /\ Cardinality(KeyRecords(pair.additions, e.k)) = 1
    /\ \A i \in KeyRecords(pair.additions, e.k) : pair.additions[i].value = e.v
    /\ KeyRecords(pair.modifications, e.k) = {}

NoRecord(pair, e) ==
    /\ KeyRecords(pair.additions, e.k) = {}
    /\ KeyRecords(pair.modifications, e.k) = {}

\* C6: when the two snapshots of a pair are identical the pair has no
\* additions, no removals, no modifications and no theme-version note, for
\* schema documents and flat documents, whatever the third snapshot is.
C6_IdenticalSnapshotsNoRecords ==
    /\ pc = "schema_done" =>
          \A k \in Indices(SchemaPairs) :
              SchemaPairs[k].base = SchemaPairs[k].compare =>
                  /\ SchemaPairs[k].additions = <<>>
                  /\ SchemaPairs[k].modifications = <<>>
                  /\ SchemaPairs[k].removals = <<>>
                  /\ SchemaPairs[k].sections = <<>>
                  /\ KeySet(settings_analysis.theme_info_changes) \cap SchemaPairs[k].notes = {}
    /\ pc = "done" =>
          \A n \in Indices(FlatAnalyses) : \A k \in Indices(FlatPairs(FlatAnalyses[n])) :
              LET pair == FlatPairs(FlatAnalyses[n])[k]
              IN  pair.base = pair.compare =>
                      pair.additions = <<>> /\ pair.modifications = <<>>

\* Old upstream and custom identical, the new upstream of another version.
C6_Witness ==
    /\ pc = "schema_done"
    /\ dawn_v10 = current
    /\ dawn_v15 # current
    /\ KeySet(settings_analysis.theme_info_changes) = {"v15_upstream"}
    /\ settings_analysis.v10_upstream_vs_v10_custom.modifications = <<>>

\* C8 as stated: in each of the three pairs every key of the compare snapshot
\* that the base snapshot lacks has exactly one addition record, with the key
\* and the compare-side value, and no modification record.
C8_OneAdditionPerNewKey ==
    pc = "done" =>
        \A n \in Indices(FlatAnalyses) : \A k \in Indices(FlatPairs(FlatAnalyses[n])) :
            LET pair == FlatPairs(FlatAnalyses[n])[k]
            IN  \A i \in Indices(pair.compare) :
                    pair.compare[i].k \notin KeySet(pair.base) =>
                        OneAddition(pair, pair.compare[i])

\* C8 as amended: so it is in the two pairs whose compare side is the new
\* upstream; in the pair old upstream vs custom a new key has its one addition
\* record when it starts with "custom_" and no record otherwise.
C8_OneAdditionPerNewKeyCustomOnlyInFirstPair ==
    pc = "done" =>
        \A n \in Indices(FlatAnalyses) : \A k \in Indices(FlatPairs(FlatAnalyses[n])) :
            LET pair == FlatPairs(FlatAnalyses[n])[k]
            IN  \A i \in Indices(pair.compare) :
                    pair.compare[i].k \notin KeySet(pair.base) =>
                        IF k = 1 /\ ~StartsWith(pair.compare[i].k, CustomPrefix)
                        THEN NoRecord(pair, pair.compare[i])
                        ELSE OneAddition(pair, pair.compare[i])

\* The scenario {a, custom_b} against {a, custom_b, custom_c: "3"}.
C8_Witness ==
    /\ pc = "done"
    /\ dawn_v10 = Entry(KeyA, Str("1")) \o Entry(KeyCustomB, Str("2"))
    /\ current = dawn_v10 \o Entry(KeyCustomC, Str("3"))
    /\ Len(locale_analysis.v10_upstream_vs_v10_custom.custom_additions) = 1
    /\ locale_analysis.v10_upstream_vs_v10_custom.custom_additions[1].key = KeyCustomC
    /\ locale_analysis.v10_upstream_vs_v10_custom.custom_additions[1].value = Str("3")
    /\ locale_analysis.v10_upstream_vs_v10_custom.modifications = <<>>

\* C9 as stated: in each of the three pairs a key of both snapshots has a
\* modification record if and only if its two values are unequal by content.
C9_ModificationIffValuesDiffer ==
    pc = "done" =>
        \A n \in Indices(FlatAnalyses) : \A k \in Indices(FlatPairs(FlatAnalyses[n])) :
            LET pair == FlatPairs(FlatAnalyses[n])[k]
            IN  \A i \in Indices(pair.compare) :
                    pair.compare[i].k \in KeySet(pair.base) =>
                        (KeyRecords(pair.modifications, pair.compare[i].k) # {}
                            <=> Get(pair.base, pair.compare[i].k) # pair.compare[i].v)

\* C9 as amended: so it is for locale documents in all three pairs and for
\* settings data in the two pairs against the new upstream; in the settings-data
\* pair old upstream vs custom the record is there if and only if the values are
\* unequal and the key starts with "custom_" or the custom value is a list or
\* an object.
C9_ModificationIffValuesDifferAndTracked ==
    pc = "done" =>
        \A n \in Indices(FlatAnalyses) : \A k \in Indices(FlatPairs(FlatAnalyses[n])) :
            LET pair == FlatPairs(FlatAnalyses[n])[k]
            IN  \A i \in Indices(pair.compare) :
                    LET e == pair.compare[i]
                        tracked == \/ n = 1
                                   \/ k # 1
                                   \/ StartsWith(e.k, CustomPrefix)
                                   \/ e.v.t \in {"list", "dict"}
                    IN  e.k \in KeySet(pair.base) =>
                            (KeyRecords(pair.modifications, e.k) # {}
                                <=> (Get(pair.base, e.k) # e.v /\ tracked))

\* A list value with its elements in another order is a modification.
C9_Witness ==
    /\ pc = "done"
    /\ dawn_v10 = Entry(KeyA, List(<<"1", "2">>))
    /\ current = Entry(KeyA, List(<<"2", "1">>))
    /\ dawn_v15 = Entry(KeyA, Str("1"))
    /\ Len(settings_data_analysis.v10_upstream_vs_v10_custom.modifications) = 1
    /\ Len(locale_analysis.v10_custom_vs_v15_upstream.conflict_modifications) = 1

(***************************************************************************)
(* Claims about the three-way comparator's records (SpecCompare)           *)
(***************************************************************************)
\* The names of the three pair namespaces of a result.
PairNames == {Cmp1, Cmp2, Cmp3}

\* Every record of every list stored under a pair namespace of `analysis`
\* carries a comparison field whose value is the name of that namespace.
TaggedByNamespace(analysis) ==
    \A ns \in PairNames : \A list \in DOMAIN analysis[ns] :
        \A i \in Indices(analysis[ns][list]) :
            /\ "comparison" \in DOMAIN analysis[ns][list][i]
            /\ analysis[ns][list][i].comparison = ns

\* The pair whose two theme versions a theme_info_changes entry compares.
ThemeNotePair(key) == IF key = "v10_custom" THEN Cmp1 ELSE Cmp2

\* C11: every record of every additions, modifications, removals and
\* custom_sections list of the schema, settings-data and locale results carries
\* a comparison field equal to the name of the pair namespace that stores it,
\* and every theme_info_changes entry carries the name of the pair it compares.
C11_RecordsTaggedWithTheirPair ==
    /\ pc = "schema_done" =>
          /\ TaggedByNamespace(settings_analysis)
          /\ \A i \in Indices(settings_analysis.theme_info_changes) :
                LET note == settings_analysis.theme_info_changes[i]
                IN  /\ "comparison" \in DOMAIN note.v
                    /\ note.v.comparison = ThemeNotePair(note.k)
    /\ pc = "done" =>
          TaggedByNamespace(locale_analysis) /\ TaggedByNamespace(settings_data_analysis)

\* A run whose new upstream adds a section and changes a setting the custom
\* snapshot has too.
C11_Witness ==
    /\ pc = "schema_done"
    /\ \E i \in Indices(settings_analysis.v10_upstream_vs_v15_upstream.dawn_additions) :
          "name" \in DOMAIN settings_analysis.v10_upstream_vs_v15_upstream.dawn_additions[i]
    /\ settings_analysis.v10_custom_vs_v15_upstream.conflict_modifications # <<>>
    /\ settings_analysis.theme_info_changes # <<>>

(***************************************************************************)
(* C12: the comparisons of a classified file                               *)
(***************************************************************************)
DiffSetLabels ==
    <<"v10_upstream_vs_v10_custom", "v10_custom_vs_v15_upstream",
      "v10_upstream_vs_v15_upstream">>

\* The supplied diff set k lists the path under the status letter.
ListedIn(k, status, path) ==
    /\ diff_set_files[k].given
    /\ \E i \in 1..Len(diff_set_files[k].lines) :
          diff_set_files[k].lines[i] = RawLine(status, path)

ClaimedComparisons(status, path) ==
    IF \A k \in 1..3 : ~ListedIn(k, status, path)
    THEN <<"v10_upstream_vs_v10_custom">>
    ELSE Concat([k \in 1..3 |->
                    IF ListedIn(k, status, path) THEN <<DiffSetLabels[k]>> ELSE <<>>])

\* The classifications of the added files, over all buckets.
AllCustomFiles(inv) ==
    inv.custom_files.assets \o inv.custom_files.snippets \o inv.custom_files.templates
    \o inv.custom_files.sections \o inv.custom_files.layout \o inv.custom_files.other

ComparisonsAsClaimed(infos, status) ==
    \A i \in 1..Len(infos) :
        /\ infos[i].comparisons # <<>>
        /\ infos[i].comparisons = ClaimedComparisons(status, infos[i].path)

\* C12: every classification of an added, modified or deleted file has a
\* non-empty comparisons list: the one label v10_upstream_vs_v10_custom when no
\* supplied diff set lists the path under the file's change type (or none is
\* supplied), otherwise the labels of the diff sets that list it under that type.
C12_ComparisonsLabelled ==
    pc = "done" =>
        /\ ComparisonsAsClaimed(AllCustomFiles(inventory), "A")
        /\ ComparisonsAsClaimed(inventory.modified_dawn_files, "M")
        /\ ComparisonsAsClaimed(inventory.removed_dawn_files, "D")

\* A run with three diff sets where a modified file is listed as modified by the
\* first and the third only, and an added file is listed as added by none.
C12_Witness ==
    /\ pc = "done"
    /\ \A k \in 1..3 : diff_set_files[k].given
    /\ \E i \in 1..Len(inventory.modified_dawn_files) :
          /\ inventory.modified_dawn_files[i].comparisons
                = <<"v10_upstream_vs_v10_custom", "v10_upstream_vs_v15_upstream">>
          /\ ~ListedIn(2, "M", inventory.modified_dawn_files[i].path)
    /\ \E i \in 1..Len(AllCustomFiles(inventory)) :
          /\ AllCustomFiles(inventory)[i].comparisons = <<"v10_upstream_vs_v10_custom">>
          /\ \A k \in 1..3 : ~ListedIn(k, "A", AllCustomFiles(inventory)[i].path)

(***************************************************************************)
(* C13: the buckets of the added files                                     *)
(***************************************************************************)
BucketNames == {"assets", "snippets", "templates", "sections", "layout", "other"}

\* The first component of a path with its slash, or nothing for a bare name.
TopLevel(path) ==
    IF \E i \in 1..Len(path) : path[i] = "/"
    THEN SubSeq(path, 1, Min({i \in 1..Len(path) : path[i] = "/"}))
    ELSE <<>>

ClaimedBucket(path) ==
    CASE TopLevel(path) = AssetsDir -> "assets"
      [] TopLevel(path) = SnippetsDir -> "snippets"
      [] TopLevel(path) = TemplatesDir -> "templates"
      [] TopLevel(path) = SectionsDir -> "sections"
      [] TopLevel(path) = LayoutDir -> "layout"
      [] OTHER -> "other"

\* The paths of the lines of the input with status A.
AddedInput == {LinePath(lines[i]) : i \in {j \in 1..Len(lines) : lines[j][1] = "A"}}

BucketsHolding(inv, path) ==
    {b \in BucketNames : \E i \in 1..Len(inv.custom_files[b]) : inv.custom_files[b][i].path = path}

\* C13: every added path is in exactly one custom_files bucket, the one of its
\* top-level directory (assets/, snippets/, templates/, sections/, layout/) or
\* else other, and summary.custom_files_count is the number of added paths.
C13_AddedPathsBucketed ==
    pc = "done" =>
        /\ \A path \in AddedInput : BucketsHolding(inventory, path) = {ClaimedBucket(path)}
        /\ \A b \in BucketNames : \A i, j \in 1..Len(inventory.custom_files[b]) :
              inventory.custom_files[b][i].path = inventory.custom_files[b][j].path => i = j
        /\ inventory.summary.custom_files_count = Cardinality(AddedInput)

\* A run that adds a file whose path names assets/ below the top level, next to
\* a file of a named top-level directory.
C13_Witness ==
    /\ pc = "done"
    /\ \E i \in 1..Len(inventory.custom_files.other) :
          inventory.custom_files.other[i].path = NestedAsset
    /\ \E b \in BucketNames \ {"other"} : inventory.custom_files[b] # <<>>
    /\ inventory.summary.custom_files_count = 2

(***************************************************************************)
(* C14: a reverted file is a modified file only                            *)
(***************************************************************************)
\* The paths to revert: those listed, and those of the infos marked revert_to_clean.
RevertedPaths(inv) ==
    Range(inv.files_to_revert_to_clean)
    \cup {inv.modified_dawn_files[i].path :
            i \in {j \in 1..Len(inv.modified_dawn_files) :
                      inv.modified_dawn_files[j].revert_to_clean}}

\* C14: in every inventory a path of files_to_revert_to_clean (marked
\* revert_to_clean) is a key of modified_dawn_files and is neither in a
\* custom_files bucket nor in removed_dawn_files.
C14_RevertedOnlyModified ==
    pc = "done" =>
        \A path \in RevertedPaths(inventory) :
            /\ \E i \in 1..Len(inventory.modified_dawn_files) :
                  inventory.modified_dawn_files[i].path = path
            /\ BucketsHolding(inventory, path) = {}
            /\ \A i \in 1..Len(inventory.removed_dawn_files) :
                  inventory.removed_dawn_files[i].path # path

\* A run that reverts one file and classifies an added file that the path rule
\* for modified files would revert.
C14_Witness ==
    /\ pc = "done"
    /\ inventory.files_to_revert_to_clean = <<LocaleFr>>
    /\ BucketsHolding(inventory, ReadmeMd) = {"other"}

(***************************************************************************)
(* C15: load_json skips a leading block comment                            *)
(***************************************************************************)
LeadingWhitespace(text) ==
    IF \A i \in 1..Len(text) : text[i] \in Whitespace THEN Len(text)
    ELSE Min({i \in 1..Len(text) : text[i] \notin Whitespace}) - 1

\* The closers of the comment that opens at the start of body: they begin
\* behind the two characters of the opener.
Closers(body) == {i \in Occurrences(body, CommentClose) : i > Len(CommentOpen)}

ClaimedLoad(text) ==
    LET body == SubSeq(text, LeadingWhitespace(text) + 1, Len(text))
    IN  IF StartsWith(body, CommentOpen)
        THEN IF Closers(body) = {} THEN JSONDecodeError
             ELSE json_loads(SubSeq(body, Min(Closers(body)) + Len(CommentClose), Len(body)))
        ELSE json_loads(text)

\* C15: when the text, leading whitespace aside, begins with the comment opener,
\* load_json drops everything up to and including the closer of that comment
\* and gives the JSON value of the remainder; otherwise it gives the JSON value
\* of the whole text; a remainder that is not JSON raises the parse error.
C15_LoadJsonSkipsLeadingComment ==
    pc = "loaded" => loaded = ClaimedLoad(file_text)

(***************************************************************************)
(* C16: the exit status of the scripts that load the version configuration *)
(***************************************************************************)
\* C16: a script that loads the version configuration exits with status 1 when
\* the configuration file is missing and with status 0 when it ran to its end.
C16_ExitStatusOfConfigScripts ==
    pc = "exited" /\ script \in ConfigScripts =>
        /\ config.state = "missing" => exit_code = <<1>>
        /\ step = Len(MainSteps(script)) => exit_code = <<0>>

(***************************************************************************)
(* C17: a fatal error leaves no output                                     *)
(***************************************************************************)
\* The run meets a fatal error: the version configuration it loads is missing
\* or is not JSON, or an input file is not JSON.
FatalError ==
    \/ script \in ConfigScripts /\ config.state \in {"missing", "invalid"}
    \/ bad_input # 0

\* C17: on a fatal error (missing configuration, input that does not parse as
\* JSON) the script stops before it creates or writes any output directory or
\* file.
C17_NoOutputOnFatalError ==
    pc \in {"main", "ended", "exited"} /\ FatalError =>
        /\ disk = {}
        /\ pc # "main" => step < Len(MainSteps(script))

\* The last of the twelve inputs of the three-way comparator does not parse:
\* the run has loaded eleven files and ended without output.
C17_Witness ==
    /\ pc = "exited"
    /\ script = "analyze-all-json-diffs"
    /\ bad_input = 12
    /\ step = 11
    /\ ended[1].kind = "raise"
    /\ disk = {}

(***************************************************************************)
(* C18: the output of a run depends on that run only                       *)
(***************************************************************************)
\* What a run with these inputs leaves in an empty output directory.
RunAlone(name, inputs) ==
    IF name = "extract-json-changes" THEN extract_json_changes(inputs, {})
    ELSE GeneratePatches(inputs, 1, {})

\* C18: after any sequence of runs the output directory holds what the last
\* run alone would leave: no file of an earlier run survives that the last run
\* would not write.
C18_OutputOfLastRunOnly ==
    pc = "rerun" /\ step >= 1 => disk = RunAlone(script, job[step])

(***************************************************************************)
(* C19: settings that only the base has                                    *)
(***************************************************************************)
\* <<section name, setting id>> of the settings of a common section that
\* the base has and compare lacks.
BaseOnlyEntries(pair) ==
    {<<name, id>> \in (KeySet(SectionsMap(pair.base)) \cap KeySet(SectionsMap(pair.compare)))
                      \X {"bg", "fg", "width"} :
        /\ id \in KeySet(SettingsMap(Get(SectionsMap(pair.base), name)))
        /\ id \notin KeySet(SettingsMap(Get(SectionsMap(pair.compare), name)))}

\* C19: in every comparison pair, a setting id of a section of both snapshots
\* that the base has and compare lacks is reported in the removals list of the
\* pair (removals, dawn_removals, conflict_removals).
C19_BaseOnlySettingsAreRemovals ==
    runs >= 1 =>
        \A k \in Indices(SchemaPairs) : \A e \in BaseOnlyEntries(SchemaPairs[k]) :
            RecordsFor(SchemaPairs[k].removals, e[1], e[2]) # {}

(***************************************************************************)
(* C20: sections that only compare has                                     *)
(***************************************************************************)
\* The whole-section records of a pair, wherever the pair keeps them.
SectionRecordsOf(pair, name) ==
    {i \in Indices(pair.sections \o pair.additions) :
        /\ "name" \in DOMAIN (pair.sections \o pair.additions)[i]
        /\ (pair.sections \o pair.additions)[i].name = name}

NewSectionNames(pair) == KeySet(SectionsMap(pair.compare)) \ KeySet(SectionsMap(pair.base))

\* C20: in each of the three pairs a section of compare that the base lacks is
\* reported as a whole-section addition, and every setting of it that has an
\* id is reported as an addition of the pair as well.
C20_NewSectionAndItsSettingsAreAdditions ==
    runs >= 1 =>
        \A k \in Indices(SchemaPairs) : \A name \in NewSectionNames(SchemaPairs[k]) :
            /\ SectionRecordsOf(SchemaPairs[k], name) # {}
            /\ \A id \in KeySet(SettingsMap(Get(SectionsMap(SchemaPairs[k].compare), name))) :
                  RecordsFor(SchemaPairs[k].additions, name, id) # {}

(***************************************************************************)
(* C21: version-change notes                                               *)
(***************************************************************************)
\* The namespace of the k-th comparison pair.
PairName(k) == <<Cmp1, Cmp2, Cmp3>>[k]

\* The version-change notes of the latest run that are about pair k.
VersionNotes(k) ==
    {i \in Indices(settings_analysis.theme_info_changes) :
        settings_analysis.theme_info_changes[i].v.comparison = PairName(k)}

\* C21: the theme_info theme_version is compared for all three pairs; a pair
\* whose two versions differ has exactly one version-change note, giving
\* the two versions, and a pair whose versions are equal has none.
C21_VersionNotePerDifferingPair ==
    runs >= 1 =>
        \A k \in Indices(SchemaPairs) :
            LET old == ThemeInfo(SchemaPairs[k].base).theme_version
                new == ThemeInfo(SchemaPairs[k].compare).theme_version
            IN  /\ old = new => VersionNotes(k) = {}
                /\ old # new =>
                      /\ Cardinality(VersionNotes(k)) = 1
                      /\ \A i \in VersionNotes(k) :
                            /\ settings_analysis.theme_info_changes[i].v.old = old
                            /\ settings_analysis.theme_info_changes[i].v.new = new

(***************************************************************************)
(* C22: the three pairs are compared independently (SpecCompare)           *)
(***************************************************************************)
\* A snapshot without entries, as a schema document and as a flat document.
EmptySnapshot == <<>>

\* The three inputs with the snapshot that pair k does not compare replaced
\* by the empty snapshot.
WithoutThird(k) ==
    <<[v10 |-> dawn_v10, cur |-> current, v15 |-> EmptySnapshot],
      [v10 |-> dawn_v10, cur |-> EmptySnapshot, v15 |-> dawn_v15],
      [v10 |-> EmptySnapshot, cur |-> current, v15 |-> dawn_v15]>>[k]

SchemaAlone(k, order) ==
    analyze_settings_schema(WithoutThird(k).v10, WithoutThird(k).cur, WithoutThird(k).v15,
                            order)[PairName(k)]

LocaleAlone(k) ==
    analyze_locale(WithoutThird(k).v10, WithoutThird(k).cur, WithoutThird(k).v15)[PairName(k)]

\* C22: the result stored under the namespace of a pair is a result that the
\* pair's two snapshots give whatever the third snapshot is (here: with the
\* third one empty, under one of the hash seeds), in the schema comparator and
\* in the locale comparator; so a change of the third snapshot alone leaves the
\* namespace as it is, and no record of a pair is added to, taken from or
\* deduplicated against the lists of another pair.
C22_PairsIndependent ==
    /\ pc = "schema_done" =>
          \A k \in 1..3 : \E order \in HashOrders :
              settings_analysis[PairName(k)] = SchemaAlone(k, order)
    /\ pc = "done" =>
          \A k \in 1..3 : locale_analysis[PairName(k)] = LocaleAlone(k)

\* A locale run in which a custom key that the old upstream lacks is in the
\* custom snapshot and in the new upstream alike: it is an addition of the
\* first pair and of the second, and the third pair has an addition and a
\* modification of its own.
C22_Witness ==
    /\ pc = "done"
    /\ \E i \in Indices(locale_analysis.v10_upstream_vs_v10_custom.custom_additions) :
       \E j \in Indices(locale_analysis.v10_upstream_vs_v15_upstream.dawn_additions) :
          /\ locale_analysis.v10_upstream_vs_v10_custom.custom_additions[i].key = KeyCustomB
          /\ locale_analysis.v10_upstream_vs_v15_upstream.dawn_additions[j].key = KeyCustomB
    /\ locale_analysis.v10_custom_vs_v15_upstream.conflict_additions # <<>>
    /\ locale_analysis.v10_custom_vs_v15_upstream.conflict_modifications # <<>>

(***************************************************************************)
(* C23: settings without an id, sections without a name (SpecUnnamed)      *)
(***************************************************************************)
\* The records of all lists of all three pairs of the latest run.
AllSchemaRecords ==
    Concat([k \in 1..3 |->
        SchemaPairs[k].additions \o SchemaPairs[k].modifications
        \o SchemaPairs[k].removals \o SchemaPairs[k].sections])

\* A record is about a section without a name, or about a setting without
\* an id.
AboutUnidentified(r) ==
    \/ "name" \in DOMAIN r /\ r.name = None
    \/ "section" \in DOMAIN r /\ r.section = None
    \/ "id" \in DOMAIN r /\ (r.id = None \/ r.id = "")

\* C23: settings lacking an id and sections lacking a name are skipped: no
\* addition, modification, removal or section record of any pair is about
\* one of them, and the run gives a result.
C23_UnidentifiedEntriesSkipped ==
    runs >= 1 =>
        /\ pc = "schema_done"
        /\ \A i \in Indices(AllSchemaRecords) : ~AboutUnidentified(AllSchemaRecords[i])

(***************************************************************************)
(* C24: the locale comparator reports no removals (SpecFlat)               *)
(***************************************************************************)
RemovalLists == {"removals", "dawn_removals", "conflict_removals"}

\* The keys the base of a pair has and its compare lacks.
BaseOnlyKeys(pair) == KeySet(pair.base) \ KeySet(pair.compare)

\* C24: in each of the three pairs of the locale result, a top-level key that
\* the base has and compare lacks has no record, neither among the additions
\* nor among the modifications, and no pair has a removals list: its lists
\* are the additions and the modifications alone.
C24_LocaleReportsNoRemovals ==
    pc = "done" =>
        /\ \A ns \in PairNames :
              /\ DOMAIN locale_analysis[ns] \cap RemovalLists = {}
              /\ Cardinality(DOMAIN locale_analysis[ns]) = 2
        /\ \A k \in 1..3 : \A key \in BaseOnlyKeys(FlatPairs(locale_analysis)[k]) :
              /\ KeyRecords(FlatPairs(locale_analysis)[k].additions, key) = {}
              /\ KeyRecords(FlatPairs(locale_analysis)[k].modifications, key) = {}

\* A locale run in which the custom snapshot dropped a key of the old
\* upstream and the new upstream dropped a key of the custom snapshot.
C24_Witness ==
    /\ pc = "done"
    /\ BaseOnlyKeys(FlatPairs(locale_analysis)[1]) # {}
    /\ BaseOnlyKeys(FlatPairs(locale_analysis)[2]) # {}
    /\ KeyCustomB \in BaseOnlyKeys(FlatPairs(locale_analysis)[3])

(***************************************************************************)
(* C25: git invocations that fail in generate-all-diffs (SpecDiffs)        *)
(***************************************************************************)
\* Whatever the git invocations did, a run that got past its configuration
\* attempted all outputs in order and ended normally.
DiffsRunGoesOn ==
    (pc = "exited" /\ LoadDiffsConfig(config) = Continue) =>
          /\ [i \in Indices(job) |-> job[i].file]
                = [i \in Indices(job) |-> GitInvocations(get_git_refs(config))[i].file]
          /\ Len(job) = Len(DiffSetNames) * Len(DiffFileNames)
          /\ ended = <<Return(<<0>>)>>
          /\ exit_code = <<0>>

\* C25: every git invocation that exits non-zero or writes to its error
\* stream has a warning logged, and the run is not aborted: a run that got
\* past its configuration attempts all the diff outputs of the three diff
\* sets in order and ends normally.
C25_GitFailureWarnsAndRunGoesOn ==
    /\ \A i \in Indices(job) :
          (job[i].returncode # 0 \/ job[i].stderr # "") => job[i].warned
    /\ DiffsRunGoesOn

(***************************************************************************)
(* C26: a configuration file that lacks required keys (SpecDiffs)          *)
(***************************************************************************)
\* The configuration file is there and lacks a key of git_config or a
\* version string.
IncompleteConfig(cfg) ==
    /\ cfg.state = "present"
    /\ ~(GitKeys \subseteq cfg.git_config /\ VersionKeys \subseteq cfg.versions)

\* C26: with a configuration file that exists but lacks required keys, the
\* script aborts before any git command is run and before any output is
\* written: no invocation, nothing on disk, no normal return, and no ref that
\* the file does not give is ever used.
C26_IncompleteConfigIsFatal ==
    IncompleteConfig(config) =>
        /\ job = <<>>
        /\ disk = {}
        /\ pc \in {"diffs_config", "ended", "exited"}
        /\ ended # <<Return(<<0>>)>>

(***************************************************************************)
(* C27: the validation lines and the counts of the report (SpecReport)     *)
(***************************************************************************)
\* The lines of the document that start with the text of summary line i.
LinesShowing(i) ==
    {k \in Indices(file_text) : file_text[k][1] = SummaryLines[i].text}

\* The count a summary line shows: the digits after its text.
CountShown(line, i) ==
    ToInt(SubSeq(line, 2, Len(line) - Len(SummaryLines[i].tail)))

StatusLetter(raw) == raw[1]
PathText(raw) == SubSeq(raw, Min({i \in Indices(raw) : raw[i] = "\t"}) + 1, Len(raw) - 1)

\* The paths of the lines of the file with the given status letter, in the
\* order of the file.
PathsWithStatus(letter) ==
    Concat([i \in Indices(lines) |->
               IF lines[i] # <<"\n">> /\ StatusLetter(lines[i]) = letter
               THEN <<PathText(lines[i])>>
               ELSE <<>>])

\* The paths of the lines whose status is none of A, M, D.
OtherPaths ==
    {PathText(lines[i]) : i \in {j \in Indices(lines) :
        lines[j] # <<"\n">> /\ StatusLetter(lines[j]) \notin {"A", "M", "D"}}}

\* C28: the list added, modified, deleted of parse_file_changes holds the
\* paths of the lines with the status letter A, M, D, in the order of the
\* input, and nothing else; the paths of a line with another status (a
\* rename, a copy) are in none of the three lists.
C28_ListsByStatusLetter ==
    pc # "start" =>
        /\ file_changes.added = PathsWithStatus("A")
        /\ file_changes.modified = PathsWithStatus("M")
        /\ file_changes.deleted = PathsWithStatus("D")
        /\ \A p \in OtherPaths :
              p \notin Range(file_changes.added) \cup Range(file_changes.modified)
                       \cup Range(file_changes.deleted)

\* A file with a rename line and a line of an added file.
C28_Witness ==
    /\ pc = "parsed"
    /\ OtherPaths # {}
    /\ file_changes.added # <<>>

(***************************************************************************)
(* C29: one patch file per path in generate-file-patches (SpecReruns)      *)
(***************************************************************************)
\* C29: within one run, two different paths of the inventory never get the
\* same patch file name, and the patch written for a path is not overwritten
\* by the patch of another: after the run the patch file of every path for
\* which git gave a diff holds that diff.
C29_DistinctPathsDistinctPatchFiles ==
    (script = "generate-file-patches" /\ pc = "rerun" /\ step >= 1) =>
        LET inv == job[step]
        IN  /\ \A i, j \in Indices(inv.files_to_patch_modified) :
                  inv.files_to_patch_modified[i] # inv.files_to_patch_modified[j]
                  => SafeName(inv.files_to_patch_modified[i])
                        # SafeName(inv.files_to_patch_modified[j])
            /\ \A i \in Indices(inv.files_to_patch_modified) :
                  Strip(inv.git_diff[i]) # <<>>
                  => [name |-> SafeName(inv.files_to_patch_modified[i]),
                      content |-> inv.git_diff[i]] \in disk

(***************************************************************************)
(* Claims about the patch parser (SpecPatch)                               *)
(***************************************************************************)
\* The lines of the first file's hunk in the patch `ls`.
FirstHunkBody(ls) ==
    LET later == {i \in 2..Len(ls) : StartsWith(ls[i], DiffGit)}
        end == IF later = {} THEN Len(ls) ELSE Min(later) - 1
    IN  SubSeq(ls, 5, end)

\* The number line k of a hunk has in the new version of the file: the lines
\* of the hunk before it that are context or added lines come first.
NewFileLine(start, body, k) ==
    start + Cardinality({j \in 1..(k - 1) : body[j][1] \in {" ", "+"}})

\* The positions in the hunk of the added lines that have a text.
AddedWithText(body) == {k \in 1..Len(body) : body[k] = AddedLine}

\* C30: parse_diff_patch records for every added line the line number that
\* line has in the new version of the file: the counter starts at the hunk
\* header's new-file start, advances by one for every context line and every
\* added line, blank added lines included, does not advance for removed
\* lines and does not carry over from the previous file's hunks.
C30_AddedLinesCarryNewFileNumbers ==
    pc = "patched" =>
        LET body == FirstHunkBody(file_text)
            recorded == Get(loaded, AssetCss)
        IN  /\ {recorded[i].line : i \in 1..Len(recorded)}
                 = {NewFileLine(HunkStart, body, k) : k \in AddedWithText(body)}
            /\ Len(recorded) = Cardinality(AddedWithText(body))
            /\ SectionLiquid \in Range(Keys(loaded)) =>
                   Get(loaded, SectionLiquid)
                       = <<[line |-> NewFileLine(1, NextFileBody, 2),
                            type |-> "addition", content |-> <<"y">>]>>

\* A patch in which no blank added line comes before an added line: there
\* the recorded numbers are the new-file line numbers.
C30_NumbersWithoutBlankAddedLines ==
    pc = "patched" =>
        LET body == FirstHunkBody(file_text)
            recorded == Get(loaded, AssetCss)
        IN  (\A k \in AddedWithText(body) : \A j \in 1..(k - 1) : body[j] # BlankAddedLine)
                => {recorded[i].line : i \in 1..Len(recorded)}
                     = {NewFileLine(HunkStart, body, k) : k \in AddedWithText(body)}

====
